---- MODULE Spec2Model ----
(***************************************************************************)
(* Backport orchestration of scylladb/github-automation                    *)
(* (.github/scripts/auto-backport-jira.py) as a state machine.             *)
(*                                                                         *)
(* State: the pull requests of one repository (labels, title, body         *)
(* markers, head/base branch, state), the issues of the tracker, the set   *)
(* of target branches that already contain the change, and a record of     *)
(* the last pass that ran.  One action per entry point of main(): the      *)
(* initial pass, chain continuation and branch-push handling; plus the     *)
(* environment's merge and close of a tracking pull request.               *)
(***************************************************************************)
EXTENDS Integers, Sequences, FiniteSets, TLC

\* ------------------------------------------------------------------------
\* Bounds of the model
\* ------------------------------------------------------------------------
MaxPRs == 4
MaxFaults == 1
MaxParallel == 2

\* ------------------------------------------------------------------------
\* Versions, labels, branches
\* ------------------------------------------------------------------------
NoVer == [mgr |-> FALSE, major |-> 0, minor |-> 0]
V254 == [mgr |-> FALSE, major |-> 2025, minor |-> 4]
V253 == [mgr |-> FALSE, major |-> 2025, minor |-> 3]
VM34 == [mgr |-> TRUE, major |-> 3, minor |-> 4]
Versions == {V254, V253, VM34}

SCYLLADB_REPO_NAME == "scylladb/scylladb"
SCYLLA_PKG_REPO_NAME == "scylladb/scylla-pkg"
JIRA_FAILURE_LABEL == "jira-sub-issue-creation-failed"
BotUser == "scylladbbot"
RootAuthor == "alice"

Lbl(k, v) == [kind |-> k, ver |-> v]
BackportLabel(v) == Lbl("backport", v)
PendingLabel(v) == Lbl("backport-pending", v)
DoneLabel(v) == Lbl("backport-done", v)
PromotedLabel(b) == Lbl("promoted-to-" \o b.prefix, b.ver)

is_manager_version(v) == v.mgr

get_branch_prefix(repo_name) ==
    IF repo_name = SCYLLADB_REPO_NAME THEN "branch-" ELSE "next-"

\* A branch name is a prefix and a version; a manager branch is named by the
\* version itself, master and next carry no version.
Branch(p, v) == [prefix |-> p, ver |-> v]
MasterBranch == Branch("master", NoVer)

\* Variant: the repository's prefix goes before every version.
get_branch_name_always_prefixed(repo_name, v) == Branch(get_branch_prefix(repo_name), v)

get_branch_name(repo_name, v) ==
    IF is_manager_version(v) THEN Branch("", v)
    ELSE Branch(get_branch_prefix(repo_name), v)


\* Variant: the key is the two numbers, whatever the kind.
parse_version_numbers_only(v) == <<1, v.major, v.minor>>

parse_version(v) == <<IF is_manager_version(v) THEN 0 ELSE 1, v.major, v.minor>>

\* Python's tuple order on the sort keys.
KeyLess(a, b) ==
    \/ a[1] < b[1]
    \/ a[1] = b[1] /\ a[2] < b[2]
    \/ a[1] = b[1] /\ a[2] = b[2] /\ a[3] < b[3]

\* Number of leading elements of the (descending) sequence t whose key is not
\* below k: a stable descending sort puts the new element right after them.
RECURSIVE KeepBefore(_, _)
KeepBefore(t, k) ==
    IF t = <<>> \/ KeyLess(parse_version(Head(t)), k) THEN 0
    ELSE 1 + KeepBefore(Tail(t), k)

InsertDesc(t, x) ==
    LET n == KeepBefore(t, parse_version(x))
    IN SubSeq(t, 1, n) \o <<x>> \o SubSeq(t, n + 1, Len(t))

\* Variant: the versions stay in the order of the labels.
keep_label_order(s) == s

RECURSIVE sort_versions_descending(_)
sort_versions_descending(s) ==
    IF s = <<>> THEN <<>>
    ELSE InsertDesc(sort_versions_descending(SubSeq(s, 1, Len(s) - 1)), s[Len(s)])

\* The order in which the host lists a set of labels (some fixed order).
RECURSIVE SetToSeq(_)
SetToSeq(S) ==
    IF S = {} THEN <<>>
    ELSE LET x == CHOOSE y \in S : TRUE IN <<x>> \o SetToSeq(S \ {x})

Range(s) == {s[i] : i \in DOMAIN s}

\* Variant: the pattern has no $, pending labels match as well.
BackportVersions_WithPending(labels) ==
    LET bare == {l \in labels : l.kind \in {"backport", "backport-pending"}}
    IN [i \in 1..Cardinality(bare) |-> SetToSeq(bare)[i].ver]

\* Versions of the labels matching backport/(manager-)?\d+\.\d+$ exactly.
BackportVersions(labels) ==
    LET bare == {l \in labels : l.kind = "backport"}
    IN [i \in 1..Cardinality(bare) |-> SetToSeq(bare)[i].ver]

\* ------------------------------------------------------------------------
\* Pull requests
\* ------------------------------------------------------------------------
\* A title is a sequence of tokens: "[Backport <ver>]" prefixes, white space
\* and other text.
BackportToken(v) == [bp |-> TRUE, ver |-> v, sp |-> FALSE]
TextToken == [bp |-> FALSE, ver |-> NoVer, sp |-> FALSE]
SpaceToken == [bp |-> FALSE, ver |-> NoVer, sp |-> TRUE]

\* A body marker: "backport of PR <link>" or "Parent PR: #<num>"; num = 0 is
\* a link that holds no #<number>.
Marker(k, n) == [kind |-> k, num |-> n]

NoHead == [num |-> 0, ver |-> NoVer]
HeadBranch(n, v) == [num |-> n, ver |-> v]

VARIABLES
    repoName,   \* --repo
    prs,        \* pull requests by number
    issues,     \* tracker issues by key
    comments,   \* failure comments on tracker issues: <<key, version>>
    onBranch,   \* versions whose target branch already holds the change
    requested,  \* versions requested on the root pull request (never changes)
    budget,     \* number of passes the environment may let fail (never changes)
    failed,     \* number of passes in which an operation has failed
    last,       \* what the last pass did (kept in runs without failures)
    call        \* the last call of a function examined on its own: arguments, result

vars == <<repoName, prs, issues, comments, onBranch, requested, budget, failed, last,
          call>>

RootPR == 1
RootIssue == 1

\* Inputs of a pass that the environment decides: at most one failing
\* operation (git, pull-request creation, sub-task creation, or the label
\* calls that name one label).
NoFault == [kind |-> "none", ver |-> NoVer, lkind |-> "none"]

\* The faults that can touch a pass: git and pull-request creation for the
\* versions it attempts, sub-task creation for the versions it opens
\* sub-tasks for, label calls for the versions whose labels it writes.
FaultsFor(attempted, tracked, labelled) ==
    IF failed >= budget THEN {NoFault} ELSE
    {NoFault}
    \cup {[kind |-> k, ver |-> v, lkind |-> "none"] : k \in {"git", "pr"}, v \in attempted}
    \cup {[kind |-> "jira", ver |-> v, lkind |-> "none"] : v \in tracked}
    \cup {[kind |-> "label", ver |-> v, lkind |-> k] :
             k \in {"backport", "backport-pending", "backport-done"}, v \in labelled}

GitFails(flt, v) == flt.kind = "git" /\ flt.ver = v
CreatePullFails(flt, v) == flt.kind = "pr" /\ flt.ver = v
JiraFails(flt, v) == flt.kind = "jira" /\ flt.ver = v
LabelCallFails(flt, l) == flt.kind = "label" /\ flt.lkind = l.kind /\ flt.ver = l.ver

\* The working state of a pass: the stores it writes and what it has done.
World(P, I, C) ==
    [prs |-> P, issues |-> I, comments |-> C,
     created |-> {}, skipped |-> {}, md |-> <<>>,
     outcome |-> "none", sorted |-> <<>>, orig |-> 0]

Ended(W, o) == [W EXCEPT !.outcome = o]

SetLabels(W, n, L) == [W EXCEPT !.prs[n].labels = L]

\* ------------------------------------------------------------------------
\* Recognising tracking pull requests and tracing back
\* ------------------------------------------------------------------------
HasMarker(pr, k) == \E i \in DOMAIN pr.markers : pr.markers[i].kind = k

FirstMarker(pr, k) ==
    pr.markers[CHOOSE i \in DOMAIN pr.markers :
        /\ pr.markers[i].kind = k
        /\ \A j \in 1..(i - 1) : pr.markers[j].kind # k]

is_backport_pr(pr) ==
    \/ Len(pr.title) > 0 /\ pr.title[1].bp
    \/ HasMarker(pr, "backport_of")
    \/ HasMarker(pr, "parent")

\* The link of the first "backport of PR" marker, or None (0 is used for a
\* missing link; the marker itself is returned when there is one).
extract_main_pr_link_from_body(pr) ==
    IF HasMarker(pr, "backport_of") THEN <<FirstMarker(pr, "backport_of").num>> ELSE <<>>

\* The number of the first "Parent PR: #<number>" of the body; a "Parent PR:"
\* that no #<number> follows is not matched by the search.
FirstParentNumber(pr) ==
    pr.markers[CHOOSE i \in DOMAIN pr.markers :
        /\ pr.markers[i].kind = "parent" /\ pr.markers[i].num # 0
        /\ \A j \in 1..(i - 1) : ~(pr.markers[j].kind = "parent" /\ pr.markers[j].num # 0)].num

\* Number of the pull request the body refers to, 0 for None.
get_original_pr_from_backport(P, pr) ==
    LET new == extract_main_pr_link_from_body(pr)
        link == IF new # <<>> THEN new
                ELSE IF \E i \in DOMAIN pr.markers :
                           pr.markers[i].kind = "parent" /\ pr.markers[i].num # 0
                THEN <<FirstParentNumber(pr)>>
                ELSE <<>>
    IN IF link = <<>> THEN 0
       ELSE IF link[1] = 0 THEN 0
       ELSE IF link[1] \in DOMAIN P THEN link[1]
       ELSE 0

\* The loop of get_root_original_pr: the pull request it stops at and the
\* number of back-references it has followed.
RECURSIVE TraceBack(_, _, _, _)
TraceBack(P, current_pr, depth, max_depth) ==
    IF ~(depth < max_depth) THEN [pr |-> current_pr, depth |-> depth]
    ELSE IF ~is_backport_pr(P[current_pr]) THEN [pr |-> current_pr, depth |-> depth]
    ELSE IF get_original_pr_from_backport(P, P[current_pr]) = 0
    THEN [pr |-> current_pr, depth |-> depth]
    ELSE TraceBack(P, get_original_pr_from_backport(P, P[current_pr]), depth + 1,
                   max_depth)

\* Variant: the loop runs while depth <= max_depth.
get_root_original_pr_extra_hop(P, pr, max_depth) == TraceBack(P, pr, 0, max_depth + 1)

get_root_original_pr(P, pr, max_depth) == TraceBack(P, pr, 0, max_depth)

\* Version of the first [Backport <ver>] in the title, NoVer for None.
MergedVersion(pr) ==
    IF \E i \in DOMAIN pr.title : pr.title[i].bp
    THEN pr.title[CHOOSE i \in DOMAIN pr.title :
            pr.title[i].bp /\ \A j \in 1..(i - 1) : ~pr.title[j].bp].ver
    ELSE NoVer

\* The white space a match of \s* takes from the front.
RECURSIVE DropSpaces(_)
DropSpaces(t) == IF t # <<>> /\ Head(t).sp THEN DropSpaces(Tail(t)) ELSE t

RECURSIVE DropTrailingSpaces(_)
DropTrailingSpaces(t) ==
    IF t # <<>> /\ t[Len(t)].sp THEN DropTrailingSpaces(SubSeq(t, 1, Len(t) - 1)) ELSE t

\* str.strip()
StripSpaces(t) == DropTrailingSpaces(DropSpaces(t))

\* The loop: while the text starts with a prefix, the prefix and the white
\* space after it are cut off.
RECURSIVE StripBackportPrefixes(_)
StripBackportPrefixes(title) ==
    IF title # <<>> /\ Head(title).bp
    THEN StripBackportPrefixes(DropSpaces(Tail(title)))
    ELSE title

extract_original_title(title) ==
    IF StripBackportPrefixes(title) # <<>>
    THEN StripSpaces(StripBackportPrefixes(title))
    ELSE title

\* ------------------------------------------------------------------------
\* Label state machine
\* ------------------------------------------------------------------------
\* Variant: the done label is added before the old label is removed.
MarkDoneResult_AddFirst(L, v, flt) ==
    LET done_label == DoneLabel(v)
        Move(src) ==
            IF LabelCallFails(flt, done_label) THEN [labels |-> L, ret |-> FALSE]
            ELSE IF LabelCallFails(flt, src)
                 THEN [labels |-> L \cup {done_label}, ret |-> FALSE]
            ELSE [labels |-> (L \ {src}) \cup {done_label}, ret |-> TRUE]
    IN IF BackportLabel(v) \in L THEN Move(BackportLabel(v))
       ELSE IF PendingLabel(v) \in L THEN Move(PendingLabel(v))
       ELSE IF done_label \in L THEN [labels |-> L, ret |-> TRUE]
       ELSE [labels |-> L, ret |-> FALSE]

\* Variant: a call that finds the done label puts the version back to pending.
MarkDoneResult_Requeue(L, v, flt) ==
    LET done_label == DoneLabel(v)
        Move(src) ==
            IF LabelCallFails(flt, src) THEN [labels |-> L, ret |-> FALSE]
            ELSE IF LabelCallFails(flt, done_label)
                 THEN [labels |-> L \ {src}, ret |-> FALSE]
            ELSE [labels |-> (L \ {src}) \cup {done_label}, ret |-> TRUE]
    IN IF BackportLabel(v) \in L THEN Move(BackportLabel(v))
       ELSE IF PendingLabel(v) \in L THEN Move(PendingLabel(v))
       ELSE IF done_label \in L
            THEN [labels |-> (L \ {done_label}) \cup {PendingLabel(v)}, ret |-> TRUE]
       ELSE [labels |-> L, ret |-> FALSE]

\* Variant: without the check for a done label that is already there.
MarkDoneResult_NoDoneCheck(L, v, flt) ==
    LET done_label == DoneLabel(v)
        Move(src) ==
            IF LabelCallFails(flt, src) THEN [labels |-> L, ret |-> FALSE]
            ELSE IF LabelCallFails(flt, done_label)
                 THEN [labels |-> L \ {src}, ret |-> FALSE]
            ELSE [labels |-> (L \ {src}) \cup {done_label}, ret |-> TRUE]
    IN IF BackportLabel(v) \in L THEN Move(BackportLabel(v))
       ELSE IF PendingLabel(v) \in L THEN Move(PendingLabel(v))
       ELSE [labels |-> L, ret |-> FALSE]

\* Labels of pull request n after the call, and what the call returns.
MarkDoneResult(L, v, flt) ==
    LET original_label == BackportLabel(v)
        pending_label == PendingLabel(v)
        done_label == DoneLabel(v)
        Move(src) ==
            IF LabelCallFails(flt, src) THEN [labels |-> L, ret |-> FALSE]
            ELSE IF LabelCallFails(flt, done_label)
                 THEN [labels |-> L \ {src}, ret |-> FALSE]
            ELSE [labels |-> (L \ {src}) \cup {done_label}, ret |-> TRUE]
    IN IF original_label \in L THEN Move(original_label)
       ELSE IF pending_label \in L THEN Move(pending_label)
       ELSE IF done_label \in L THEN [labels |-> L, ret |-> TRUE]
       ELSE [labels |-> L, ret |-> FALSE]

replace_backport_label_with_done(W, n, v, flt) ==
    LET r == MarkDoneResult(W.prs[n].labels, v, flt)
        entry == [pr |-> n, ver |-> v, before |-> W.prs[n].labels,
                  after |-> r.labels, ret |-> r.ret]
    IN [SetLabels(W, n, r.labels) EXCEPT !.md = Append(W.md, entry)]

\* ------------------------------------------------------------------------
\* Sub-tasks of the issue tracker
\* ------------------------------------------------------------------------
Issue(parent, v, sub) == [parent |-> parent, ver |-> v, subtask |-> sub]

\* Variant: the search never matches.
find_no_sub_issue(I, parent_key, v) == 0

\* Key of the first sub-task of parent_key whose summary names the version,
\* 0 for None.
find_existing_sub_issue(I, parent_key, v) ==
    LET found == {k \in DOMAIN I :
                    I[k].subtask /\ I[k].parent = parent_key /\ I[k].ver = v}
    IN IF found = {} THEN 0 ELSE CHOOSE k \in found : \A j \in found : k <= j

get_parent_key_if_subtask(issue) == IF issue.subtask THEN issue.parent ELSE 0

\* Variant: the sub-task goes under the key that was given, sub-task or not.
create_jira_sub_issue_under_given(I, parent_key, v, flt) ==
    IF parent_key \notin DOMAIN I \/ JiraFails(flt, v) THEN [issues |-> I, key |-> 0]
    ELSE
      LET existing_key == find_existing_sub_issue(I, parent_key, v)
      IN IF existing_key # 0 THEN [issues |-> I, key |-> existing_key]
         ELSE [issues |-> Append(I, Issue(parent_key, v, TRUE)),
               key |-> Len(I) + 1]

\* The issues after the call and the key it returns (0 for None). The call
\* returns None when the issue cannot be fetched or the sub-task cannot be
\* posted: a failing call is one whose first request fails already.
create_jira_sub_issue(I, parent_key, v, flt) ==
    IF parent_key \notin DOMAIN I \/ JiraFails(flt, v) THEN [issues |-> I, key |-> 0]
    ELSE
      LET grandparent_key == get_parent_key_if_subtask(I[parent_key])
          actual_parent_key == IF grandparent_key # 0 THEN grandparent_key ELSE parent_key
          existing_key == find_existing_sub_issue(I, actual_parent_key, v)
      IN IF existing_key # 0 THEN [issues |-> I, key |-> existing_key]
         ELSE [issues |-> Append(I, Issue(actual_parent_key, v, TRUE)),
               key |-> Len(I) + 1]

\* Sub-tasks of one version for every key of a Fixes list, in order: the
\* issues and comments afterwards, the key mapping, and whether one failed.
RECURSIVE CreateSubIssues(_, _, _, _, _, _)
CreateSubIssues(I, C, keys, v, flt, report) ==
    IF keys = <<>> THEN [issues |-> I, comments |-> C, mapping |-> <<>>, failed |-> FALSE]
    ELSE
      LET r == create_jira_sub_issue(I, Head(keys), v, flt)
          C1 == IF r.key = 0 /\ report THEN C \cup {<<Head(keys), v>>} ELSE C
          rest == CreateSubIssues(r.issues, C1, Tail(keys), v, flt, report)
      IN [issues |-> rest.issues, comments |-> rest.comments,
          mapping |-> <<IF r.key = 0 THEN Head(keys) ELSE r.key>> \o rest.mapping,
          failed |-> (r.key = 0) \/ rest.failed]

\* ------------------------------------------------------------------------
\* Creating a tracking pull request
\* ------------------------------------------------------------------------
Body(fixes, markers) == [fixes |-> fixes, markers |-> markers]

\* The Fixes keys remapped, the carried-forward markers, and a Parent PR
\* line for the number found in main_pr_link (0: no number in the link).
generate_backport_pr_body(original_pr, main_pr_link, jira_mapping) ==
    Body(jira_mapping,
         original_pr.markers \o
           (IF main_pr_link # 0 THEN <<Marker("parent", main_pr_link)>> ELSE <<>>))

OpenWithHead(P, head) == {n \in DOMAIN P : P[n].head = head /\ P[n].state = "open"}
AnyWithHead(P, head) == {n \in DOMAIN P : P[n].head = head}
Newest(S) == CHOOSE n \in S : \A m \in S : m <= n

\* Variant: only open pull requests are looked at.
find_open_backport_pr(P, original_pr_number, v) ==
    LET head == HeadBranch(original_pr_number, v)
    IN IF OpenWithHead(P, head) # {} THEN Newest(OpenWithHead(P, head)) ELSE 0

find_existing_backport_pr(P, original_pr_number, v) ==
    LET head == HeadBranch(original_pr_number, v)
    IN IF OpenWithHead(P, head) # {} THEN Newest(OpenWithHead(P, head))
       ELSE IF AnyWithHead(P, head) # {} THEN Newest(AnyWithHead(P, head))
       ELSE 0

\* Variant: the host accepts a second open pull request from a head branch.
create_pull_request_second_open(W, req, flt) ==
    [W |-> [W EXCEPT !.prs = Append(W.prs,
                        [title |-> req.title, fixes |-> req.body.fixes,
                         markers |-> req.body.markers,
                         labels |-> req.remaining_backport_labels,
                         head |-> req.head, base |-> req.base, state |-> "open",
                         draft |-> req.is_draft, author |-> BotUser,
                         assignee |-> W.prs[req.pr].author]),
                     !.created = W.created \cup {Len(W.prs) + 1}],
     ret |-> Len(W.prs) + 1]

\* Variant: a draft gets no conflicts label.
create_pull_request_unlabelled_draft(W, req, flt) ==
    LET assign_to_pr == IF req.original_pr # 0 THEN req.original_pr ELSE req.pr
        labels_to_add ==
            (IF req.jira_failed THEN {Lbl(JIRA_FAILURE_LABEL, NoVer)} ELSE {})
            \cup req.remaining_backport_labels
        new == [title |-> req.title, fixes |-> req.body.fixes,
                markers |-> req.body.markers, labels |-> labels_to_add,
                head |-> req.head, base |-> req.base, state |-> "open",
                draft |-> req.is_draft, author |-> BotUser,
                assignee |-> W.prs[assign_to_pr].author]
        open == OpenWithHead(W.prs, req.head)
    IN IF CreatePullFails(flt, req.head.ver) THEN [W |-> W, ret |-> 0]
       ELSE IF open # {}
       THEN [W |-> [W EXCEPT !.prs[Newest(open)].fixes = req.body.fixes,
                             !.prs[Newest(open)].markers = req.body.markers],
             ret |-> Newest(open)]
       ELSE [W |-> [W EXCEPT !.prs = Append(W.prs, new),
                             !.created = W.created \cup {Len(W.prs) + 1}],
             ret |-> Len(W.prs) + 1]

\* req: what backport() hands over (head, base, title, body, draft, ...).
create_pull_request(W, req, flt) ==
    LET assign_to_pr == IF req.original_pr # 0 THEN req.original_pr ELSE req.pr
        labels_to_add ==
            (IF req.is_draft THEN {Lbl("conflicts", NoVer)} ELSE {})
            \cup (IF req.jira_failed THEN {Lbl(JIRA_FAILURE_LABEL, NoVer)} ELSE {})
            \cup req.remaining_backport_labels
        new == [title |-> req.title, fixes |-> req.body.fixes,
                markers |-> req.body.markers, labels |-> labels_to_add,
                head |-> req.head, base |-> req.base, state |-> "open",
                draft |-> req.is_draft, author |-> BotUser,
                assignee |-> W.prs[assign_to_pr].author]
        open == OpenWithHead(W.prs, req.head)
    IN IF CreatePullFails(flt, req.head.ver) THEN [W |-> W, ret |-> 0]
       ELSE IF open # {}
       THEN \* "A pull request already exists": the open one gets the new body
            [W |-> [W EXCEPT !.prs[Newest(open)].fixes = req.body.fixes,
                             !.prs[Newest(open)].markers = req.body.markers],
             ret |-> Newest(open)]
       ELSE [W |-> [W EXCEPT !.prs = Append(W.prs, new),
                             !.created = W.created \cup {Len(W.prs) + 1}],
             ret |-> Len(W.prs) + 1]

\* Variant: a commit that is already on the branch is skipped without a
\* label update.
backport_skip_only(W, a, present, conflicted, flt) ==
    LET target_pr == IF a.original_pr # 0 THEN a.original_pr ELSE a.pr
        req == [pr |-> a.pr, original_pr |-> a.original_pr,
                head |-> HeadBranch(a.pr, a.version),
                base |-> a.base,
                title |-> <<BackportToken(a.version), SpaceToken>>
                            \o extract_original_title(W.prs[a.pr].title),
                body |-> a.body, is_draft |-> a.version \in conflicted,
                jira_failed |-> a.jira_failed,
                remaining_backport_labels |-> a.remaining_backport_labels]
    IN IF a.version \in present
       THEN [W |-> [W EXCEPT !.skipped = W.skipped \cup
                                 {[ver |-> a.version, target |-> target_pr]}],
             ret |-> 0]
       ELSE IF GitFails(flt, a.version) THEN [W |-> W, ret |-> 0]
       ELSE create_pull_request(W, req, flt)

\* Variant: a failing git operation is logged and the pull request is
\* opened all the same.
backport_despite_git(W, a, present, conflicted, flt) ==
    LET target_pr == IF a.original_pr # 0 THEN a.original_pr ELSE a.pr
        req == [pr |-> a.pr, original_pr |-> a.original_pr,
                head |-> HeadBranch(a.pr, a.version),
                base |-> a.base,
                title |-> <<BackportToken(a.version), SpaceToken>>
                            \o extract_original_title(W.prs[a.pr].title),
                body |-> a.body, is_draft |-> a.version \in conflicted,
                jira_failed |-> a.jira_failed,
                remaining_backport_labels |-> a.remaining_backport_labels]
    IN IF a.version \in present
       THEN [W |-> [replace_backport_label_with_done(W, target_pr, a.version, flt)
                      EXCEPT !.skipped = W.skipped \cup
                                 {[ver |-> a.version, target |-> target_pr]}],
             ret |-> 0]
       ELSE create_pull_request(W, req, flt)

\* a: the arguments of backport(); present: the target branches that hold
\* the commit already; conflicted: the versions whose cherry-pick conflicts.
backport(W, a, present, conflicted, flt) ==
    LET target_pr == IF a.original_pr # 0 THEN a.original_pr ELSE a.pr
        req == [pr |-> a.pr, original_pr |-> a.original_pr,
                head |-> HeadBranch(a.pr, a.version),
                base |-> a.base,
                title |-> <<BackportToken(a.version), SpaceToken>>
                            \o extract_original_title(W.prs[a.pr].title),
                body |-> a.body, is_draft |-> a.version \in conflicted,
                jira_failed |-> a.jira_failed,
                remaining_backport_labels |-> a.remaining_backport_labels]
    IN IF a.version \in present
       THEN [W |-> [replace_backport_label_with_done(W, target_pr, a.version, flt)
                      EXCEPT !.skipped = W.skipped \cup
                                 {[ver |-> a.version, target |-> target_pr]}],
             ret |-> 0]
       ELSE IF GitFails(flt, a.version) THEN [W |-> W, ret |-> 0]
       ELSE create_pull_request(W, req, flt)

\* ------------------------------------------------------------------------
\* Initial pass: main() for one closed pull request, backport_with_jira
\* ------------------------------------------------------------------------
\* Sub-tasks for every version of vs and every key: the stores afterwards,
\* version_to_jira_mapping and the versions with a failure.
RECURSIVE CreateAllSubIssues(_, _, _, _, _)
CreateAllSubIssues(I, C, keys, vs, flt) ==
    IF vs = <<>>
    THEN [issues |-> I, comments |-> C, mapping |-> [v \in {} |-> <<>>], failed |-> {}]
    ELSE
      LET one == CreateSubIssues(I, C, keys, Head(vs), flt, TRUE)
          rest == CreateAllSubIssues(one.issues, one.comments, keys, Tail(vs), flt)
      IN [issues |-> rest.issues, comments |-> rest.comments,
          mapping |-> [v \in DOMAIN rest.mapping \cup {Head(vs)} |->
                         IF v = Head(vs) THEN one.mapping ELSE rest.mapping[v]],
          failed |-> rest.failed \cup (IF one.failed THEN {Head(vs)} ELSE {})]

\* Variant: the original pull request keeps its labels.
ConvertToPending_None(W, n, vs, flt) == W

\* Chained mode: backport/<v> -> backport/<v>-pending on the original pull
\* request, one label after the other.
RECURSIVE ConvertToPending(_, _, _, _)
ConvertToPending(W, n, vs, flt) ==
    IF vs = <<>> THEN W
    ELSE
      LET label == BackportLabel(Head(vs))
          pending_label == PendingLabel(Head(vs))
          L == W.prs[n].labels
          L1 == IF LabelCallFails(flt, label) THEN L
                ELSE IF LabelCallFails(flt, pending_label) THEN L \ {label}
                ELSE (L \ {label}) \cup {pending_label}
      IN ConvertToPending(SetLabels(W, n, L1), n, Tail(vs), flt)

BackportArgs(n, v, base, body, jira_failed, original_pr, remaining) ==
    [pr |-> n, version |-> v, base |-> base, body |-> body,
     jira_failed |-> jira_failed, original_pr |-> original_pr,
     remaining_backport_labels |-> remaining]

\* Variant: the loop ends after the first version.
ParallelBackports_FirstOnly(W, n, vs, J, repo_name, present, conflicted, flt) ==
    IF vs = <<>> THEN W
    ELSE IF find_existing_backport_pr(W.prs, n, Head(vs)) # 0 THEN W
    ELSE backport(W, BackportArgs(n, Head(vs), get_branch_name(repo_name, Head(vs)),
                                  generate_backport_pr_body(W.prs[n], n,
                                                            J.mapping[Head(vs)]),
                                  Head(vs) \in J.failed, n, {}),
                  present, conflicted, flt).W

\* Parallel mode: one attempt per version, in sorted order.
RECURSIVE ParallelBackports(_, _, _, _, _, _, _, _)
ParallelBackports(W, n, vs, J, repo_name, present, conflicted, flt) ==
    IF vs = <<>> THEN W
    ELSE
      LET v == Head(vs)
          existing_pr == find_existing_backport_pr(W.prs, n, v)
          pr_body == generate_backport_pr_body(W.prs[n], n, J.mapping[v])
          r == backport(W, BackportArgs(n, v, get_branch_name(repo_name, v), pr_body,
                                        v \in J.failed, n, {}),
                        present, conflicted, flt)
          W1 == IF existing_pr # 0 THEN W ELSE r.W
      IN ParallelBackports(W1, n, Tail(vs), J, repo_name, present, conflicted, flt)

\* Variant: the other versions go to pending whatever backport() returned.
ChainedOutcome_AlwaysPending(r, n, remaining, flt) ==
    Ended(ConvertToPending(r.W, n, remaining, flt), "chained")

\* Chained mode, after backport() for the highest version returned r: the
\* other versions go to pending on the original pull request when a tracking
\* pull request came back.
ChainedOutcome(r, n, remaining, flt) ==
    IF r.ret # 0 /\ remaining # <<>>
    THEN Ended(ConvertToPending(r.W, n, remaining, flt), "chained")
    ELSE Ended(r.W, IF r.ret # 0 THEN "chained" ELSE "no_pr")

\* The mode choice, with the sorted versions and the sub-tasks J at hand.
BackportSorted(W, n, sorted_versions, J, repo_name, present, conflicted, flt) ==
    LET WJ == [W EXCEPT !.issues = J.issues, !.comments = J.comments,
                        !.sorted = sorted_versions, !.orig = n]
        highest_version == sorted_versions[1]
        remaining == Tail(sorted_versions)
    IN IF sorted_versions = <<>> THEN Ended(WJ, "no_versions")
       ELSE IF Lbl("parallel_backport", NoVer) \in W.prs[n].labels
       THEN Ended(ParallelBackports(WJ, n, sorted_versions, J, repo_name,
                                    present, conflicted, flt), "parallel")
       ELSE IF find_existing_backport_pr(W.prs, n, highest_version) # 0
       THEN Ended(WJ, "existing")
       ELSE ChainedOutcome(
              backport(WJ,
                       BackportArgs(n, highest_version,
                                    get_branch_name(repo_name, highest_version),
                                    generate_backport_pr_body(W.prs[n], n,
                                                              J.mapping[highest_version]),
                                    highest_version \in J.failed, n,
                                    {BackportLabel(v) : v \in Range(remaining)}),
                       present, conflicted, flt),
              n, remaining, flt)

\* The sub-tasks of every sorted version, then the mode choice.
BackportWithSubIssues(W, n, sorted_versions, repo_name, present, conflicted, flt) ==
    BackportSorted(W, n, sorted_versions,
                   CreateAllSubIssues(W.issues, W.comments, W.prs[n].fixes,
                                      sorted_versions, flt),
                   repo_name, present, conflicted, flt)

backport_with_jira(W, n, versions, repo_name, present, conflicted, flt) ==
    BackportWithSubIssues(W, n, sort_versions_descending(versions),
                          repo_name, present, conflicted, flt)

\* The body of main()'s loop for pull request n, after the promoted-label
\* check.
MainForPR(W, n, repo_name, present, conflicted, flt) ==
    LET versions == BackportVersions(W.prs[n].labels)
        sorted_versions == sort_versions_descending(versions)
        highest_version == sorted_versions[1]
    IN IF versions = <<>> THEN Ended(W, "no_backport_label")
       ELSE IF find_existing_backport_pr(W.prs, n, highest_version) # 0
       THEN Ended([W EXCEPT !.sorted = sorted_versions], "chain_in_progress")
       ELSE backport_with_jira(W, n, versions, repo_name, present, conflicted, flt)

\* ------------------------------------------------------------------------
\* Chain continuation
\* ------------------------------------------------------------------------
\* Variant: the merged pull request keeps its labels.
\* Variant: the label of the next version becomes a pending label as well.
UpdateMergedLabels_AllPending(W, m, vs, next_version, flt) ==
    SetLabels(W, m, (W.prs[m].labels \ {BackportLabel(v) : v \in Range(vs)})
                        \cup {PendingLabel(v) : v \in Range(vs)})

UpdateMergedLabels_None(W, m, vs, next_version, flt) == W

\* Labels of the merged tracking pull request: every backport/<v> removed,
\* backport/<v>-pending added for all but the next version.
RECURSIVE UpdateMergedLabels(_, _, _, _, _)
UpdateMergedLabels(W, m, vs, next_version, flt) ==
    IF vs = <<>> THEN W
    ELSE
      LET label == BackportLabel(Head(vs))
          pending_label == PendingLabel(Head(vs))
          L == W.prs[m].labels
          L1 == IF LabelCallFails(flt, label) THEN L
                ELSE IF Head(vs) = next_version THEN L \ {label}
                ELSE IF LabelCallFails(flt, pending_label) THEN L \ {label}
                ELSE (L \ {label}) \cup {pending_label}
      IN UpdateMergedLabels(SetLabels(W, m, L1), m, Tail(vs), next_version, flt)

process_chain_backport(W, m, repo_name, present, conflicted, flt) ==
    LET merged_pr == W.prs[m]
        merged_version == MergedVersion(merged_pr)
        original_pr == get_original_pr_from_backport(W.prs, merged_pr)
        W1 == IF original_pr # 0 /\ merged_version # NoVer
              THEN replace_backport_label_with_done(W, original_pr, merged_version, flt)
              ELSE W
        \* merged_pr.labels is read after the done label is written
        listed == BackportVersions(W1.prs[m].labels)
        remaining_versions == sort_versions_descending(listed)
        next_version == remaining_versions[1]
        main_pr_link == extract_main_pr_link_from_body(merged_pr)
        source == IF original_pr # 0 THEN W1.prs[original_pr] ELSE merged_pr
        J == CreateSubIssues(W1.issues, W1.comments, source.fixes, next_version, flt, FALSE)
        remaining_backport_labels ==
            {BackportLabel(v) : v \in Range(Tail(remaining_versions))}
        W2 == [W1 EXCEPT !.issues = J.issues, !.sorted = remaining_versions,
                         !.orig = original_pr]
        W3 == UpdateMergedLabels(W2, m, listed, next_version, flt)
        new_pr_body ==
            generate_backport_pr_body(source,
                                      IF main_pr_link # <<>> THEN main_pr_link[1] ELSE m,
                                      J.mapping)
        r == backport(W3, BackportArgs(m, next_version,
                                       get_branch_name(repo_name, next_version),
                                       new_pr_body, FALSE, original_pr,
                                       remaining_backport_labels),
                      present, conflicted, flt)
    IN IF ~is_backport_pr(merged_pr) THEN Ended(W, "not_backport")
       ELSE IF listed = <<>> THEN Ended([W1 EXCEPT !.orig = original_pr], "chain_complete")
       ELSE Ended(r.W, IF r.ret # 0 THEN "next_hop" ELSE "no_pr")

\* ------------------------------------------------------------------------
\* Branch push
\* ------------------------------------------------------------------------
IsGatingBranch_NextOnly(b) == b.prefix = "next"

IsGatingBranch(b) == b.prefix = "next-" \/ b.prefix = "next"

\* Version named by a stable branch, NoVer when the name ends in none.
BranchVersion(b) == IF b.prefix \in {"", "branch-"} THEN b.ver ELSE NoVer

\* For one pull request n found among the pushed commits.
process_branch_push(W, b, n, repo_name, present, conflicted, flt) ==
    LET pr == W.prs[n]
        version == BranchVersion(b)
        W1 == SetLabels(W, n, pr.labels \cup {PromotedLabel(b)})
        original_pr == get_original_pr_from_backport(W1.prs, pr)
        W2 == IF version # NoVer /\ original_pr # 0
              THEN replace_backport_label_with_done(W1, original_pr, version, flt)
              ELSE W1
    IN IF IsGatingBranch(b) THEN Ended(W, "gating")
       ELSE IF ~is_backport_pr(pr) THEN Ended(W, "not_backport")
       ELSE process_chain_backport(W2, n, repo_name, present, conflicted, flt)

get_promoted_label(base_branch) ==
    IF base_branch.prefix \in {"master", "main", "next"}
    THEN Lbl("promoted-to-master", NoVer)
    ELSE PromotedLabel(base_branch)

\* ------------------------------------------------------------------------
\* The state machine
\* ------------------------------------------------------------------------
RootTitle == <<TextToken>>

NewRoot(V, parallel) ==
    [title |-> RootTitle, fixes |-> <<RootIssue>>, markers |-> <<>>,
     labels |-> {BackportLabel(v) : v \in V}
                \cup {get_promoted_label(MasterBranch)}
                \cup (IF parallel THEN {Lbl("parallel_backport", NoVer)} ELSE {}),
     head |-> NoHead, base |-> MasterBranch, state |-> "merged",
     draft |-> FALSE, author |-> RootAuthor, assignee |-> RootAuthor]

Pass(op, n, b, W, clean) ==
    [op |-> op, pr |-> n, branch |-> b, outcome |-> W.outcome,
     created |-> W.created, skipped |-> W.skipped, md |-> W.md,
     sorted |-> W.sorted, orig |-> W.orig, clean |-> clean]

NoCall == [fn |-> "none"]

NoPass ==
    [op |-> "none", pr |-> 0, branch |-> MasterBranch, outcome |-> "none",
     created |-> {}, skipped |-> {}, md |-> <<>>, sorted |-> <<>>, orig |-> 0,
     clean |-> TRUE]

InitStores ==
    /\ repoName \in {SCYLLADB_REPO_NAME, SCYLLA_PKG_REPO_NAME}
    /\ requested \in (SUBSET Versions) \ {{}}
    /\ \E parallel \in BOOLEAN :
         /\ parallel => Cardinality(requested) <= MaxParallel
         /\ prs = <<NewRoot(requested, parallel)>>
    /\ issues = <<Issue(0, NoVer, FALSE)>>
    /\ comments = {}
    /\ onBranch \in SUBSET requested
    /\ failed = 0
    /\ last = NoPass
    /\ call = NoCall

\* Runs in which every operation succeeds; each pass is recorded in last.
Init == InitStores /\ budget = 0

\* Runs without failures for an original pull request whose body holds the
\* words of a back-reference and no number ("Parent PR: see above").
InitAnyBody ==
    /\ repoName = SCYLLA_PKG_REPO_NAME
    /\ requested \in (SUBSET Versions) \ {{}}
    /\ \E parallel \in BOOLEAN, k \in {"backport_of", "parent"} :
         /\ parallel => Cardinality(requested) <= MaxParallel
         /\ prs = <<[NewRoot(requested, parallel) EXCEPT !.markers = <<Marker(k, 0)>>]>>
    /\ issues = <<Issue(0, NoVer, FALSE)>>
    /\ comments = {}
    /\ onBranch = {}
    /\ failed = 0
    /\ last = NoPass
    /\ call = NoCall
    /\ budget = 0

\* Runs in which up to MaxFaults passes meet a failing operation (counted in
\* failed), in the repository whose branches are gated.
InitFaulty == InitStores /\ budget = MaxFaults /\ repoName = SCYLLA_PKG_REPO_NAME

\* A pass ran clean when no failure changed what it did.
Same(W, W0) == [W EXCEPT !.md = <<>>] = [W0 EXCEPT !.md = <<>>]

Commit(op, n, b, W, W0, flt) ==
    /\ Len(W.prs) <= MaxPRs
    /\ prs' = W.prs
    /\ issues' = W.issues
    /\ comments' = W.comments
    /\ last' = IF budget = 0 THEN Pass(op, n, b, W, Same(W, W0)) ELSE last
    /\ failed' = IF Same(W, W0) THEN failed ELSE failed + 1
    /\ UNCHANGED <<repoName, onBranch, requested, budget, call>>

Start == World(prs, issues, comments)

PassBranches ==
    {MasterBranch, Branch("next", NoVer)}
    \cup {Branch(p, v) : p \in {"branch-", "next-"}, v \in {w \in Versions : ~w.mgr}}
    \cup {Branch("", v) : v \in {w \in Versions : w.mgr}}

\* The versions a pass for pull request n works on: all of them, and the
\* ones it attempts a tracking pull request for.
InitialVersions(n) ==
    LET vs == BackportVersions(prs[n].labels)
    IN IF vs = <<>> \/ find_existing_backport_pr(prs, n, sort_versions_descending(vs)[1]) # 0
       THEN {} ELSE Range(vs)

\* The cherry-pick outcomes the model lets the environment choose: clean for
\* all, or a conflict for the first version attempted (runs with failures
\* leave conflicts out).
Conflicts(attempted) ==
    {{}} \cup (IF attempted = {} \/ budget > 0 THEN {}
               ELSE {{sort_versions_descending(SetToSeq(attempted))[1]}})

Attempted(n, vs) ==
    IF vs = {} THEN {}
    ELSE IF Lbl("parallel_backport", NoVer) \in prs[n].labels THEN vs
    ELSE {sort_versions_descending(SetToSeq(vs))[1]}

ChainVersions(m) ==
    IF is_backport_pr(prs[m]) THEN Range(BackportVersions(prs[m].labels)) ELSE {}

ChainLabelled(m, b) ==
    IF is_backport_pr(prs[m]) /\ ~IsGatingBranch(b)
    THEN (ChainVersions(m) \cup {MergedVersion(prs[m]), BranchVersion(b)}) \ {NoVer}
    ELSE {}

\* main() in --commits / --pull-request mode, for one closed pull request.
InitialPass(n) ==
    \E base_branch \in PassBranches :
        /\ get_promoted_label(base_branch) \in prs[n].labels
        /\ \E flt \in FaultsFor(Attempted(n, InitialVersions(n)), InitialVersions(n),
                                 InitialVersions(n)),
              conflicted \in Conflicts(Attempted(n, InitialVersions(n))) :
             Commit("initial", n, base_branch,
                    MainForPR(Start, n, repoName, onBranch, conflicted, flt),
                    MainForPR(Start, n, repoName, onBranch, conflicted, NoFault), flt)

\* main() in --chain-backport mode for merged pull request m.
ChainBackport(m) ==
    /\ prs[m].state = "merged"
    /\ \E flt \in FaultsFor(Attempted(m, ChainVersions(m)), Attempted(m, ChainVersions(m)),
                             ChainLabelled(m, MasterBranch)),
          conflicted \in Conflicts(Attempted(m, ChainVersions(m))) :
         Commit("chain", m, prs[m].base,
                process_chain_backport(Start, m, repoName, onBranch, conflicted, flt),
                process_chain_backport(Start, m, repoName, onBranch, conflicted, NoFault),
                flt)

\* The branches a push of pull request n's commits can go to: its base, and
\* the stable branch its gating base is promoted to.
PushBranches(base) ==
    {base}
    \cup (IF base.prefix = "next-" THEN {Branch("branch-", base.ver)} ELSE {})
    \cup (IF base.prefix = "master" THEN {Branch("next", NoVer)} ELSE {})

\* main() in --promoted-to-branch mode, for a push that holds the commits
\* of merged pull request n.
BranchPush(n) ==
    /\ prs[n].state = "merged"
    /\ \E b \in PushBranches(prs[n].base) :
         \E flt \in FaultsFor(IF IsGatingBranch(b) THEN {}
                               ELSE Attempted(n, ChainVersions(n)),
                              IF IsGatingBranch(b) THEN {}
                               ELSE Attempted(n, ChainVersions(n)),
                              ChainLabelled(n, b)),
            conflicted \in Conflicts(IF IsGatingBranch(b) THEN {}
                                       ELSE Attempted(n, ChainVersions(n))) :
           Commit("push", n, b,
                  process_branch_push(Start, b, n, repoName, onBranch, conflicted, flt),
                  process_branch_push(Start, b, n, repoName, onBranch, conflicted, NoFault),
                  flt)

\* A maintainer merges an open tracking pull request into its base branch.
MergePR(n) ==
    /\ prs[n].state = "open"
    /\ prs' = [prs EXCEPT ![n].state = "merged", ![n].draft = FALSE]
    /\ onBranch' = onBranch \cup {prs[n].base.ver}
    /\ last' = IF budget = 0 THEN [NoPass EXCEPT !.op = "merge", !.pr = n] ELSE last
    /\ UNCHANGED <<repoName, issues, comments, requested, budget, failed, call>>

\* A maintainer closes an open tracking pull request without merging it.
ClosePR(n) ==
    /\ prs[n].state = "open"
    /\ prs' = [prs EXCEPT ![n].state = "closed"]
    /\ last' = IF budget = 0 THEN [NoPass EXCEPT !.op = "close", !.pr = n] ELSE last
    /\ UNCHANGED <<repoName, issues, comments, onBranch, requested, budget, failed,
                   call>>

Next ==
    \/ \E n \in DOMAIN prs : InitialPass(n)
    \/ \E n \in DOMAIN prs : ChainBackport(n)
    \/ \E n \in DOMAIN prs : BranchPush(n)
    \/ \E n \in DOMAIN prs : MergePR(n)
    \/ \E n \in DOMAIN prs : ClosePR(n)

Spec == Init /\ [][Next]_vars

FaultySpec == InitFaulty /\ [][Next]_vars

AnyBodySpec == InitAnyBody /\ [][Next]_vars

\* ------------------------------------------------------------------------
\* Root tracing over arbitrary back-references
\* ------------------------------------------------------------------------
MaxTrace == 3
MaxDepth == 3
CycleLength == 15
max_depth_default == 10

\* A pull request of a store to trace in: plain (k = 0), with a [Backport] title
\* and no back-reference (k = -1), or with a [Backport] title and a body
\* that ends in "Parent PR: #k".
TracePR(k) ==
    [NewRoot({}, FALSE) EXCEPT
        !.title = IF k = 0 THEN RootTitle ELSE <<BackportToken(V254), SpaceToken>> \o RootTitle,
        !.markers = IF k > 0 THEN <<Marker("parent", k)>> ELSE <<>>,
        !.author = IF k = 0 THEN RootAuthor ELSE BotUser]

\* Any store of MaxTrace pull requests whose back-references point anywhere,
\* to themselves, in circles or to a number that cannot be fetched; and a
\* circle of CycleLength tracking pull requests.
TraceInit ==
    /\ \/ \E f \in [1..MaxTrace -> (-1)..(MaxTrace + 1)] :
              prs = [i \in 1..MaxTrace |-> TracePR(f[i])]
       \/ prs = [i \in 1..CycleLength |-> TracePR((i % CycleLength) + 1)]
    /\ repoName = SCYLLADB_REPO_NAME
    /\ issues = <<Issue(0, NoVer, FALSE)>>
    /\ comments = {}
    /\ onBranch = {}
    /\ requested = {}
    /\ budget = 0
    /\ failed = 0
    /\ last = NoPass
    /\ call = NoCall

\* get_root_original_pr(repo, pr, max_depth) for pull request n.
GetRoot(n) ==
    \E max_depth \in (0..MaxDepth) \cup {max_depth_default} :
        /\ call' = [fn |-> "get_root_original_pr", start |-> n, max_depth |-> max_depth,
                    pr |-> get_root_original_pr(prs, n, max_depth).pr,
                    depth |-> get_root_original_pr(prs, n, max_depth).depth]
        /\ UNCHANGED <<repoName, prs, issues, comments, onBranch, requested, budget,
                       failed, last>>

TraceNext == \E n \in DOMAIN prs : GetRoot(n)

TraceSpec == TraceInit /\ [][TraceNext]_vars

\* ------------------------------------------------------------------------
\* Sorting arbitrary version lists
\* ------------------------------------------------------------------------
MaxLen == 3

\* A version as it is written: pad counts the leading zeros of the minor
\* number ("2025.04"), which int() drops.
Written(mgr, major, minor, pad) ==
    [mgr |-> mgr, major |-> major, minor |-> minor, pad |-> pad]

\* Standard and manager versions, a manager version with larger numbers than
\* every standard one, and two spellings of the same numbers for each kind.
SortVersions ==
    {Written(FALSE, 2025, 4, 0), Written(FALSE, 2025, 4, 1), Written(FALSE, 2025, 3, 0),
     Written(FALSE, 2026, 1, 0), Written(TRUE, 3, 4, 0), Written(TRUE, 3, 4, 1),
     Written(TRUE, 2026, 1, 0)}

SortInputs == UNION {[1..k -> SortVersions] : k \in 0..MaxLen}

SortInit ==
    /\ call \in {[fn |-> "versions", versions |-> s] : s \in SortInputs}
    /\ prs = <<NewRoot({}, FALSE)>>
    /\ repoName = SCYLLADB_REPO_NAME
    /\ issues = <<Issue(0, NoVer, FALSE)>>
    /\ comments = {}
    /\ onBranch = {}
    /\ requested = {}
    /\ budget = 0
    /\ failed = 0
    /\ last = NoPass

\* sort_versions_descending(versions) for the list that was drawn.
SortVersionList ==
    /\ call.fn = "versions"
    /\ call' = [fn |-> "sort_versions_descending", versions |-> call.versions,
                ret |-> sort_versions_descending(call.versions)]
    /\ UNCHANGED <<repoName, prs, issues, comments, onBranch, requested, budget,
                   failed, last>>

SortNext == SortVersionList

SortSpec == SortInit /\ [][SortNext]_vars

\* ------------------------------------------------------------------------
\* Helper functions on their own
\* ------------------------------------------------------------------------
\* The stores of a run in which only a helper function is called.
IdleStores ==
    /\ prs = <<NewRoot({}, FALSE)>>
    /\ repoName = SCYLLADB_REPO_NAME
    /\ issues = <<Issue(0, NoVer, FALSE)>>
    /\ comments = {}
    /\ onBranch = {}
    /\ requested = {}
    /\ budget = 0
    /\ failed = 0
    /\ last = NoPass

\* A call that is about to be made, and the call with what it returned.
Asked(fn, args) == [fn |-> fn, args |-> args, done |-> FALSE]
Answered(c, ret) == [fn |-> c.fn, args |-> c.args, done |-> TRUE, ret |-> ret]

Answer(fn, ret) ==
    /\ call.fn = fn
    /\ ~call.done
    /\ call' = Answered(call, ret)
    /\ UNCHANGED <<repoName, prs, issues, comments, onBranch, requested, budget,
                   failed, last>>

\* --repo values: the two repositories the script names and three others,
\* one of which differs from the primary one by its ending only.
RepoNames ==
    {SCYLLADB_REPO_NAME, SCYLLA_PKG_REPO_NAME, "scylladb/scylla-manager",
     "scylladb/scylladb-enterprise", "scylladb/scylla-machine-image"}

BranchNameCalls ==
    {Asked("get_branch_name", <<r, v>>) : r \in RepoNames, v \in SortVersions}

GetBranchName ==
    Answer("get_branch_name", get_branch_name(call.args[1], call.args[2]))

\* Titles of up to MaxTitle tokens.
MaxTitle == 3

TitleTokens == {BackportToken(V254), BackportToken(VM34), TextToken, SpaceToken}

Titles == UNION {[1..k -> TitleTokens] : k \in 0..MaxTitle}

OriginalTitleCalls == {Asked("extract_original_title", t) : t \in Titles}

ExtractOriginalTitle ==
    Answer("extract_original_title", extract_original_title(call.args))

\* Bodies: without marker, with "backport of PR" and a link with or without
\* #<number>, with "Parent PR:" followed by #<number> or by something else.
Bodies ==
    {<<>>} \cup {<<Marker(k, n)>> : k \in {"backport_of", "parent"}, n \in {0, RootPR}}

IsBackportCalls ==
    {Asked("is_backport_pr", [title |-> t, markers |-> b]) : t \in Titles, b \in Bodies}

IsBackportPR == Answer("is_backport_pr", is_backport_pr(call.args))

\* ---- Milestone helpers ----

\* A tag of the primary repository, by what the two tag patterns of
\* find_latest_patch_for_branch read in its name: scylla-<ver>.<patch> for a
\* release, scylla-<ver>.<patch>-rc<N> for a prerelease (either one with or
\* without a -candidate- ending).
ReleaseTag(v, p) == [ver |-> v, patch |-> p, rc |-> FALSE]
RcTag(v, p) == [ver |-> v, patch |-> p, rc |-> TRUE]

\* latest_patch and has_rc_tags while the tags are scanned.
NoPatch == [found |-> FALSE, patch |-> 0, has_rc |-> FALSE]
Patch(p, has_rc) == [found |-> TRUE, patch |-> p, has_rc |-> has_rc]

\* One turn of the loop over repo.get_tags().
ScanTag(tag, version, latest) ==
    IF tag.ver # version THEN latest
    ELSE IF ~tag.rc
    THEN IF ~latest.found \/ tag.patch > latest.patch
         THEN Patch(tag.patch, latest.has_rc)
         ELSE latest
    ELSE IF ~latest.found
         THEN Patch(tag.patch - 1, TRUE)
         ELSE Patch(latest.patch, TRUE)

RECURSIVE ScanTags(_, _, _)
ScanTags(tags, version, latest) ==
    IF tags = <<>> THEN latest
    ELSE ScanTags(Tail(tags), version, ScanTag(Head(tags), version, latest))

LatestPatch(scanned) ==
    IF ~scanned.found /\ scanned.has_rc THEN Patch(-1, TRUE) ELSE scanned

find_latest_patch_for_branch(tags, version) ==
    LatestPatch(ScanTags(tags, version, NoPatch))

Milestone(v, p) == [resolved |-> TRUE, ver |-> v, patch |-> p]
Unresolved == [resolved |-> FALSE, ver |-> NoVer, patch |-> 0]

resolve_backport_milestone_title(tags, version) ==
    IF is_manager_version(version) THEN Unresolved
    ELSE IF ~find_latest_patch_for_branch(tags, version).found THEN Unresolved
    ELSE Milestone(version, find_latest_patch_for_branch(tags, version).patch + 1)

MaxPatch == 2
MaxTags == 3

\* Tags of the version asked for, and one tag of another version.
TagNames ==
    {ReleaseTag(V254, p) : p \in 0..MaxPatch} \cup {RcTag(V254, p) : p \in 0..MaxPatch}
        \cup {ReleaseTag(V253, 0)}

TagLists == UNION {[1..k -> TagNames] : k \in 0..MaxTags}

MilestoneCalls ==
    {Asked("resolve_backport_milestone_title", [version |-> v, tags |-> t]) :
        v \in {V254, VM34}, t \in TagLists}

ResolveBackportMilestoneTitle ==
    Answer("resolve_backport_milestone_title",
           resolve_backport_milestone_title(call.args.tags, call.args.version))

\* ---- Commits already on a branch ----

\* The first line of a commit message, as a sequence of pieces of text; one
\* first line is in another when it is a contiguous part of it.
IsPartOf(short, long) ==
    \E k \in 0..(Len(long) - Len(short)) :
        \A i \in 1..Len(short) : long[k + i] = short[i]

CommitOf(sha, title) == [sha |-> sha, title |-> title]

RecentWindow == 100

\* branch_commits: the commits of a branch by their position from the tip.
Matches(commit, branch_commit) ==
    \/ IsPartOf(commit.title, branch_commit.title)
    \/ IsPartOf(branch_commit.title, commit.title)
    \/ branch_commit.sha = commit.sha

is_commit_in_branch(commit, branch_commits) ==
    \E p \in DOMAIN branch_commits :
        p <= RecentWindow /\ Matches(commit, branch_commits[p])

MaxSha == 2

CommitTitles == {<<"fix">>, <<"crash">>, <<"fix", "crash">>, <<"crash", "fix">>}

Commits == {CommitOf(sha, t) : sha \in 1..MaxSha, t \in CommitTitles}

\* A commit of the branch that shares nothing with the commits above.
UnrelatedCommit == CommitOf(0, <<"bump", "submodule">>)

\* Branches whose commits at the tip, at the last position looked at and at
\* the first position no longer looked at vary; every other position holds
\* an unrelated commit.
Positions == {1, RecentWindow, RecentWindow + 1}

Branches == [Positions -> Commits \cup {UnrelatedCommit}]

\* One SHA names one commit.
SameStore(commit, branch_commits) ==
    \A p \in DOMAIN branch_commits :
        branch_commits[p].sha = commit.sha => branch_commits[p].title = commit.title

CommitInBranchCalls ==
    UNION {{Asked("is_commit_in_branch", [commit |-> c, branch |-> b]) :
               b \in {x \in Branches : SameStore(c, x)}} : c \in Commits}

IsCommitInBranch ==
    Answer("is_commit_in_branch",
           is_commit_in_branch(call.args.commit, call.args.branch))

\* ---- Label names as text ----

\* A label name as a sequence of pieces: the piece "backport/", the piece
\* "manager-", a digit, a dot, and a piece of any other text ("-pending",
\* "-done", "none", ...).
LabelPieces == {"backport/", "manager-", "9", ".", "x"}

\* Where \d+ stops when it starts at position i of s (i itself when no digit
\* is there).
RECURSIVE AfterDigits(_, _)
AfterDigits(s, i) ==
    IF i <= Len(s) /\ s[i] = "9" THEN AfterDigits(s, i + 1) ELSE i

AfterManager(s, i) == IF i <= Len(s) /\ s[i] = "manager-" THEN i + 1 ELSE i

\* Where (manager-)?\d+\.\d+ stops when it starts at position i of s; 0 when
\* it does not match there.
AfterVersion(s, i) ==
    IF /\ AfterDigits(s, AfterManager(s, i)) > AfterManager(s, i)
       /\ AfterDigits(s, AfterManager(s, i)) <= Len(s)
       /\ s[AfterDigits(s, AfterManager(s, i))] = "."
       /\ AfterDigits(s, AfterDigits(s, AfterManager(s, i)) + 1)
              > AfterDigits(s, AfterManager(s, i)) + 1
    THEN AfterDigits(s, AfterDigits(s, AfterManager(s, i)) + 1)
    ELSE 0

\* A variant of the pattern without the $ at its end.
backport_label_pattern_open_ended(name) ==
    /\ name # <<>>
    /\ name[1] = "backport/"
    /\ AfterVersion(name, 2) # 0

\* backport_label_pattern.match(label), of main and of process_chain_backport.
backport_label_pattern(name) ==
    /\ name # <<>>
    /\ name[1] = "backport/"
    /\ AfterVersion(name, 2) = Len(name) + 1

IsNotBackportPiece(piece) == piece # "backport/"

\* main: label.replace('backport/', '').
VersionOfLabel(name) == SelectSeq(name, IsNotBackportPiece)

\* process_chain_backport: match.group(1).
VersionOfMatch(name) == Tail(name)

\* parse_version on text: the text after a leading "manager-" is split at the
\* dots, and the first two parts must be numbers.
FirstDot(s) ==
    IF \E i \in DOMAIN s : s[i] = "."
    THEN CHOOSE i \in DOMAIN s : s[i] = "." /\ \A j \in 1..(i - 1) : s[j] # "."
    ELSE Len(s) + 1

IsNumber(s) == s # <<>> /\ \A i \in DOMAIN s : s[i] = "9"

AfterFirstDot(s) == SubSeq(s, FirstDot(s) + 1, Len(s))

IsNotManagerPiece(piece) == piece # "manager-"

clean_version(version_str) ==
    IF version_str # <<>> /\ version_str[1] = "manager-"
    THEN SelectSeq(version_str, IsNotManagerPiece)
    ELSE version_str

\* parts[0] and parts[1] of a text that holds a dot.
FirstPart(s) == SubSeq(s, 1, FirstDot(s) - 1)

parse_version_raises(version_str) ==
    \/ FirstDot(clean_version(version_str)) > Len(clean_version(version_str))
    \/ ~IsNumber(FirstPart(clean_version(version_str)))
    \/ ~IsNumber(FirstPart(AfterFirstDot(clean_version(version_str))))

\* The versions a pass hands to sort_versions_descending, and whether
\* parse_version raises on one of them.
Sorting(versions) ==
    [versions |-> versions, raised |-> \E v \in versions : parse_version_raises(v)]

main_versions(names) ==
    Sorting({VersionOfLabel(n) : n \in {x \in names : backport_label_pattern(x)}})

remaining_versions(names) ==
    Sorting({VersionOfMatch(n) : n \in {x \in names : backport_label_pattern(x)}})

MaxLabel == 4

\* Names that start with "backport/" or with other text, followed by up to
\* MaxLabel pieces.
LabelNames ==
    {<<first>> \o rest : first \in {"backport/", "x"},
                        rest \in UNION {[1..k -> LabelPieces] : k \in 0..MaxLabel}}

\* The labels of a pull request: one label of any text, alone or next to
\* backport/<digit>.<digit>.
LabelSets ==
    {{n} : n \in LabelNames} \cup {{n, <<"backport/", "9", ".", "9">>} : n \in LabelNames}

VersionsCalls ==
    {Asked(fn, names) : fn \in {"main", "process_chain_backport"}, names \in LabelSets}

MainVersions == Answer("main", main_versions(call.args))

RemainingVersions == Answer("process_chain_backport", remaining_versions(call.args))

\* find_latest_patch_for_branch on its own: what it returns (None, or a
\* patch number).
Returned(latest) == [found |-> latest.found, patch |-> latest.patch]

LatestPatchCalls ==
    {Asked("find_latest_patch_for_branch", [version |-> V254, tags |-> t]) : t \in TagLists}

FindLatestPatchForBranch ==
    Answer("find_latest_patch_for_branch",
           Returned(find_latest_patch_for_branch(call.args.tags, call.args.version)))

FunctionInit ==
    /\ IdleStores
    /\ \/ call \in BranchNameCalls
       \/ call \in OriginalTitleCalls
       \/ call \in IsBackportCalls
       \/ call \in MilestoneCalls
       \/ call \in CommitInBranchCalls
       \/ call \in VersionsCalls
       \/ call \in LatestPatchCalls

FunctionNext ==
    \/ GetBranchName
    \/ ExtractOriginalTitle
    \/ IsBackportPR
    \/ ResolveBackportMilestoneTitle
    \/ IsCommitInBranch
    \/ MainVersions
    \/ RemainingVersions
    \/ FindLatestPatchForBranch

FunctionSpec == FunctionInit /\ [][FunctionNext]_vars

\* ------------------------------------------------------------------------
\* Two runs of chain continuation for one merged tracking pull request,
\* one started by the merge (--chain-backport) and one by the push to the
\* stable branch (--promoted-to-branch), step by step: every request to the
\* host or to the issue tracker is a step of its own.
\* ------------------------------------------------------------------------
\* The tracking pull request the initial pass creates.
FirstTracking == RootPR + 1

Run(pc) == [pc |-> pc, listed |-> <<>>, todo |-> <<>>, mapping |-> <<>>, ret |-> 0]

RaceInit ==
    /\ repoName \in {SCYLLADB_REPO_NAME, SCYLLA_PKG_REPO_NAME}
    /\ requested \in {V \in SUBSET Versions : Cardinality(V) >= 2}
    /\ prs = [MainForPR(World(<<NewRoot(requested, FALSE)>>,
                              <<Issue(0, NoVer, FALSE)>>, {}),
                        RootPR, repoName, {}, {}, NoFault).prs
                 EXCEPT ![FirstTracking].state = "merged"]
    /\ issues = MainForPR(World(<<NewRoot(requested, FALSE)>>,
                                <<Issue(0, NoVer, FALSE)>>, {}),
                          RootPR, repoName, {}, {}, NoFault).issues
    /\ comments = {}
    /\ onBranch = {MergedVersion(prs[FirstTracking])}
    /\ budget = 0
    /\ failed = 0
    /\ last = NoPass
    /\ call = [fn |-> "process_chain_backport",
               runs |-> <<Run("mark_done"), Run("promote")>>]

RaceStep(i, run, P, I) ==
    /\ call' = [call EXCEPT !.runs[i] = run]
    /\ prs' = P
    /\ issues' = I
    /\ UNCHANGED <<repoName, comments, onBranch, requested, budget, failed, last>>

RaceNext(run) == sort_versions_descending(run.listed)[1]

\* The pc after one label of the loop over remaining_labels is dealt with.
AfterLabel(run) ==
    [run EXCEPT !.todo = Tail(run.todo),
                !.pc = IF Len(run.todo) > 1 THEN "remove" ELSE "push"]

\* process_branch_push: pr.add_to_labels(promoted_label).
RacePromote(i) ==
    /\ call.runs[i].pc = "promote"
    /\ RaceStep(i, [call.runs[i] EXCEPT !.pc = "mark_done"],
                [prs EXCEPT ![FirstTracking].labels =
                    @ \cup {PromotedLabel(CHOOSE b \in PushBranches(prs[FirstTracking].base) :
                                              ~IsGatingBranch(b))}],
                issues)

\* replace_backport_label_with_done on the original pull request.
RaceMarkDone(i) ==
    /\ call.runs[i].pc = "mark_done"
    /\ RaceStep(i, [call.runs[i] EXCEPT !.pc = "read"],
                replace_backport_label_with_done(
                    Start, get_original_pr_from_backport(prs, prs[FirstTracking]),
                    MergedVersion(prs[FirstTracking]), NoFault).prs,
                issues)

\* merged_pr.labels is read.
RaceRead(i) ==
    /\ call.runs[i].pc = "read"
    /\ RaceStep(i, [call.runs[i] EXCEPT
                       !.listed = BackportVersions(prs[FirstTracking].labels),
                       !.todo = BackportVersions(prs[FirstTracking].labels),
                       !.pc = IF BackportVersions(prs[FirstTracking].labels) = <<>>
                              THEN "finished" ELSE "sub_issues"],
                prs, issues)

RaceSubIssues(i) ==
    /\ call.runs[i].pc = "sub_issues"
    /\ RaceStep(i, [call.runs[i] EXCEPT
                       !.mapping = CreateSubIssues(issues, comments, prs[RootPR].fixes,
                                                   RaceNext(call.runs[i]), NoFault,
                                                   FALSE).mapping,
                       !.pc = "remove"],
                prs,
                CreateSubIssues(issues, comments, prs[RootPR].fixes,
                                RaceNext(call.runs[i]), NoFault, FALSE).issues)

\* merged_pr.remove_from_labels(label); the host answers with an error when
\* the label is not there, and the pending label is then not added.
RaceRemove(i) ==
    /\ call.runs[i].pc = "remove"
    /\ RaceStep(i,
                IF /\ BackportLabel(Head(call.runs[i].todo)) \in prs[FirstTracking].labels
                   /\ Head(call.runs[i].todo) # RaceNext(call.runs[i])
                THEN [call.runs[i] EXCEPT !.pc = "add_pending"]
                ELSE AfterLabel(call.runs[i]),
                [prs EXCEPT ![FirstTracking].labels =
                    @ \ {BackportLabel(Head(call.runs[i].todo))}],
                issues)

\* merged_pr.add_to_labels(pending_label).
RaceAddPending(i) ==
    /\ call.runs[i].pc = "add_pending"
    /\ RaceStep(i, AfterLabel(call.runs[i]),
                [prs EXCEPT ![FirstTracking].labels =
                    @ \cup {PendingLabel(Head(call.runs[i].todo))}],
                issues)

\* backport(): the clone, the cherry-pick and the forced push to the fork.
RacePush(i) ==
    /\ call.runs[i].pc = "push"
    /\ RaceStep(i, [call.runs[i] EXCEPT !.pc = "create"], prs, issues)

RaceBackport(run) ==
    backport(Start,
             BackportArgs(FirstTracking, RaceNext(run),
                          get_branch_name(repoName, RaceNext(run)),
                          generate_backport_pr_body(prs[RootPR], FirstTracking,
                                                    run.mapping),
                          FALSE, RootPR,
                          {BackportLabel(v) :
                              v \in Range(Tail(sort_versions_descending(run.listed)))}),
             {}, {}, NoFault)

\* create_pull_request.
RaceCreate(i) ==
    /\ call.runs[i].pc = "create"
    /\ Len(prs) < MaxPRs
    /\ RaceStep(i, [call.runs[i] EXCEPT !.pc = "finished",
                                        !.ret = RaceBackport(call.runs[i]).ret],
                RaceBackport(call.runs[i]).W.prs, issues)

RaceSpecNext ==
    \/ \E i \in DOMAIN call.runs : RacePromote(i)
    \/ \E i \in DOMAIN call.runs : RaceMarkDone(i)
    \/ \E i \in DOMAIN call.runs : RaceRead(i)
    \/ \E i \in DOMAIN call.runs : RaceSubIssues(i)
    \/ \E i \in DOMAIN call.runs : RaceRemove(i)
    \/ \E i \in DOMAIN call.runs : RaceAddPending(i)
    \/ \E i \in DOMAIN call.runs : RacePush(i)
    \/ \E i \in DOMAIN call.runs : RaceCreate(i)

RaceSpec == RaceInit /\ [][RaceSpecNext]_vars

\* ------------------------------------------------------------------------
\* Two runs of create_jira_sub_issue at once, one step per request to the
\* issue tracker.
\* ------------------------------------------------------------------------
JiraRun(parent_key, v) ==
    [pc |-> "get_issue", parent_key |-> parent_key, version |-> v,
     actual_parent_key |-> 0, ret |-> 0]

\* The parent issue alone, with an ordinary sub-task, or with the sub-task
\* of an earlier backport.
JiraStores ==
    {<<Issue(0, NoVer, FALSE)>>, <<Issue(0, NoVer, FALSE), Issue(RootIssue, NoVer, TRUE)>>}
    \cup {<<Issue(0, NoVer, FALSE), Issue(RootIssue, v, TRUE)>> : v \in Versions}

JiraRaceInit ==
    /\ prs = <<NewRoot({}, FALSE)>>
    /\ repoName = SCYLLADB_REPO_NAME
    /\ comments = {}
    /\ onBranch = {}
    /\ requested = {}
    /\ budget = 0
    /\ failed = 0
    /\ last = NoPass
    /\ issues \in JiraStores
    /\ \E k1 \in DOMAIN issues, k2 \in DOMAIN issues, v1 \in Versions, v2 \in Versions :
          call = [fn |-> "create_jira_sub_issue",
                  runs |-> <<JiraRun(k1, v1), JiraRun(k2, v2)>>]

JiraStep(i, run, I) ==
    /\ call' = [call EXCEPT !.runs[i] = run]
    /\ issues' = I
    /\ UNCHANGED <<repoName, prs, comments, onBranch, requested, budget, failed, last>>

\* get_jira_issue(parent_key) and get_parent_key_if_subtask.
JiraGetIssue(i) ==
    /\ call.runs[i].pc = "get_issue"
    /\ JiraStep(i, [call.runs[i] EXCEPT
                       !.pc = "search",
                       !.actual_parent_key =
                           IF get_parent_key_if_subtask(issues[call.runs[i].parent_key]) # 0
                           THEN get_parent_key_if_subtask(issues[call.runs[i].parent_key])
                           ELSE call.runs[i].parent_key],
                issues)

\* find_existing_sub_issue: the search request.
JiraSearch(i) ==
    /\ call.runs[i].pc = "search"
    /\ JiraStep(i, [call.runs[i] EXCEPT
                       !.ret = find_existing_sub_issue(issues,
                                   call.runs[i].actual_parent_key, call.runs[i].version),
                       !.pc = IF find_existing_sub_issue(issues,
                                     call.runs[i].actual_parent_key,
                                     call.runs[i].version) # 0
                              THEN "finished" ELSE "post"],
                issues)

\* jira_api_request("POST", "issue", issue_data).
JiraPost(i) ==
    /\ call.runs[i].pc = "post"
    /\ JiraStep(i, [call.runs[i] EXCEPT !.pc = "finished", !.ret = Len(issues) + 1],
                Append(issues, Issue(call.runs[i].actual_parent_key,
                                     call.runs[i].version, TRUE)))

JiraRaceNext ==
    \/ \E i \in DOMAIN call.runs : JiraGetIssue(i)
    \/ \E i \in DOMAIN call.runs : JiraSearch(i)
    \/ \E i \in DOMAIN call.runs : JiraPost(i)

JiraRaceSpec == JiraRaceInit /\ [][JiraRaceNext]_vars

\* ------------------------------------------------------------------------
\* The failure-free specification with the scheduling the workflows give:
\* an open tracking pull request is merged in the end, and chain
\* continuation and branch-push passes keep being started. An initial pass
\* starts on a push to master or on a new label only, so no further initial
\* pass is promised.
\* ------------------------------------------------------------------------
\* Chained requests in scylla-pkg.
LiveInit ==
    /\ Init
    /\ repoName = SCYLLA_PKG_REPO_NAME
    /\ Lbl("parallel_backport", NoVer) \notin prs[RootPR].labels

LiveSpec ==
    /\ LiveInit
    /\ [][Next]_vars
    /\ WF_vars(\E n \in DOMAIN prs : MergePR(n))
    /\ []<><<\E n \in DOMAIN prs : ChainBackport(n)>>_vars
    /\ []<><<\E n \in DOMAIN prs : BranchPush(n)>>_vars

\* ------------------------------------------------------------------------
\* Properties
\* ------------------------------------------------------------------------
StateKinds == {"backport", "backport-pending", "backport-done"}

\* The labels of version v among L that encode its backport state.
StateLabels(L, v) == {l \in L : l.kind \in StateKinds /\ l.ver = v}

BareVersions(L) == {l.ver : l \in {k \in L : k.kind = "backport"}}

Rank(k) == IF k = "backport" THEN 1 ELSE IF k = "backport-pending" THEN 2 ELSE 3

\* The highest of a non-empty set of versions in the order of the sort keys.
Highest(V) ==
    CHOOSE v \in V : \A w \in V : ~KeyLess(parse_version(v), parse_version(w))

TrackingPRs == {n \in DOMAIN prs : prs[n].head # NoHead}

\* C1: no (pull request, version) pair ever carries two of backport/<v>,
\* backport/<v>-pending and backport/<v>-done at the same time, whatever
\* operation fails on the way.
C1_LabelExclusivity ==
    \A n \in DOMAIN prs, v \in Versions :
        Cardinality(StateLabels(prs[n].labels, v)) <= 1

\* A failed pass is behind, and the root pull request holds a done label
\* next to a pending one of another version.
C1_Witness ==
    /\ failed > 0
    /\ \E v, w \in Versions :
         /\ v # w
         /\ DoneLabel(v) \in prs[RootPR].labels
         /\ PendingLabel(w) \in prs[RootPR].labels

\* C2: a step adds a state label for version v to a pull request only if
\* the label ranks above every state label for v the pull request carried
\* (requested < pending < done), and never takes a done label away.
C2_Step ==
    \A n \in DOMAIN prs, v \in Versions :
        /\ \A l \in StateLabels(prs'[n].labels, v) \ StateLabels(prs[n].labels, v) :
              \A k \in StateLabels(prs[n].labels, v) : Rank(k.kind) < Rank(l.kind)
        /\ DoneLabel(v) \in prs[n].labels => DoneLabel(v) \in prs'[n].labels

C2_Monotonic == [][C2_Step]_vars

\* A merged tracking pull request whose remaining versions went to pending,
\* while the pull request it refers to has a done label.
C2_Witness ==
    \E n \in TrackingPRs, v, w \in Versions :
        /\ PendingLabel(w) \in prs[n].labels
        /\ get_original_pr_from_backport(prs, prs[n]) # 0
        /\ DoneLabel(v) \in prs[get_original_pr_from_backport(prs, prs[n])].labels

\* C3: for a pull request that carries backport/<v> or backport/<v>-pending,
\* two calls of replace_backport_label_with_done in a row leave backport/<v>-done
\* as the only state label of v, and the second call changes nothing and
\* returns True; the calls a pass made in a row behave the same way.
C3_MarkDoneIdempotent ==
    /\ \A n \in DOMAIN prs, v \in Versions :
          LET L == prs[n].labels
              first == MarkDoneResult(L, v, NoFault)
              second == MarkDoneResult(first.labels, v, NoFault)
          IN (BackportLabel(v) \in L \/ PendingLabel(v) \in L) =>
                /\ StateLabels(second.labels, v) = {DoneLabel(v)}
                /\ second.labels = first.labels
                /\ second.ret
    /\ \A i \in 1..(Len(last.md) - 1) :
          LET a == last.md[i]
              b == last.md[i + 1]
          IN (/\ a.pr = b.pr /\ a.ver = b.ver
              /\ (BackportLabel(a.ver) \in a.before \/ PendingLabel(a.ver) \in a.before)) =>
                /\ StateLabels(b.after, a.ver) = {DoneLabel(a.ver)}
                /\ b.after = b.before
                /\ b.ret

\* A pass called it twice in a row for the same pull request and version,
\* the first time with the pending label in place.
C3_Witness ==
    /\ Len(last.md) >= 2
    /\ last.md[1].pr = last.md[2].pr
    /\ last.md[1].ver = last.md[2].ver
    /\ PendingLabel(last.md[1].ver) \in last.md[1].before

IsChained == Lbl("parallel_backport", NoVer) \notin prs[RootPR].labels

\* Pull request n is handed to the initial pass in this step.
InitialStep(n) == last'.op = "initial" /\ last'.pr = n /\ prs[n].state = "merged"

\* Merged pull request m is handed to chain continuation in this step.
ChainStep(m) == last'.op = "chain" /\ last'.pr = m /\ prs[m].state = "merged"

\* C4: an initial pass for a pull request without parallel_backport whose
\* requested versions V have at least two elements, the highest not yet on
\* its branch and without a tracking pull request, creates exactly one
\* tracking pull request, based on the branch of the highest version; the
\* original then carries backport/<v>-pending and no backport/<v> for every
\* other v of V, and the new pull request carries backport/<v> for exactly
\* those versions.
C4_Step ==
    \A n \in DOMAIN prs :
        LET L == prs[n].labels
            V == BareVersions(L)
            hi == Highest(V)
            t == Len(prs')
        IN (/\ InitialStep(n)
            /\ Lbl("parallel_backport", NoVer) \notin L
            /\ Cardinality(V) >= 2
            /\ AnyWithHead(prs, HeadBranch(n, hi)) = {}
            /\ hi \notin onBranch) =>
               /\ Len(prs') = Len(prs) + 1
               /\ prs'[t].state = "open"
               /\ prs'[t].head = HeadBranch(n, hi)
               /\ prs'[t].base = get_branch_name(repoName, hi)
               /\ BareVersions(prs'[t].labels) = V \ {hi}
               /\ \A v \in V \ {hi} :
                     /\ PendingLabel(v) \in prs'[n].labels
                     /\ BackportLabel(v) \notin prs'[n].labels

C4_ChainedInitialPass == [][C4_Step]_vars

\* A chained initial pass for three versions has just created a pull request.
C4_Witness ==
    /\ last.op = "initial"
    /\ last.outcome = "chained"
    /\ Len(last.sorted) = 3
    /\ last.created # {}

\* The pull request a tracking pull request goes back to: the one its head
\* branch backport/<n>/to-<v> names, followed up to the pull request that is
\* no tracking pull request.
RECURSIVE RootOf(_)
RootOf(n) == IF prs[n].head = NoHead THEN n ELSE RootOf(prs[n].head.num)

\* C5: chain continuation for a merged tracking pull request of version v
\* that carries backport/<w> labels puts backport/<v>-done on the pull
\* request it was backported from (the one its head branch names, or the
\* original one), creates one tracking pull request based on the branch of
\* the highest remaining version w, and leaves backport/<w>-pending on the
\* original pull request.
C5_Step ==
    \A m \in TrackingPRs :
        LET V == BareVersions(prs[m].labels)
            v == MergedVersion(prs[m])
            w == Highest(V)
            t == Len(prs')
        IN (/\ ChainStep(m)
            /\ V # {}
            /\ w \notin onBranch) =>
               /\ \/ DoneLabel(v) \in prs'[prs[m].head.num].labels
                  \/ DoneLabel(v) \in prs'[RootOf(m)].labels
               /\ Len(prs') = Len(prs) + 1
               /\ prs'[t].base = get_branch_name(repoName, w)
               /\ (PendingLabel(w) \in prs[RootOf(m)].labels
                     => PendingLabel(w) \in prs'[RootOf(m)].labels)

C5_ChainHop == [][C5_Step]_vars

\* A hop has just created the third tracking pull request, and the version
\* of the merged one is still pending on the root.
C5_Witness ==
    /\ last.op = "chain"
    /\ last.outcome = "next_hop"
    /\ last.pr \in TrackingPRs
    /\ RootOf(last.pr) # prs[last.pr].head.num
    /\ PendingLabel(MergedVersion(prs[last.pr])) \in prs[RootOf(last.pr)].labels

\* Every requested version has its tracking pull request, all are merged and
\* processed (none carries a backport/<v> label any more), and the pass for
\* the newest one has just ended with "chain complete".
ChainFinished ==
    /\ IsChained
    /\ Cardinality(TrackingPRs) = Cardinality(requested)
    /\ \A t \in TrackingPRs :
          prs[t].state = "merged" /\ BareVersions(prs[t].labels) = {}
    /\ last.op \in {"chain", "push"}
    /\ last.outcome = "chain_complete"
    /\ last.pr = Len(prs)

\* C6: once every tracking pull request of a chain is merged and processed,
\* the root pull request carries backport/<v>-done, and neither backport/<v>
\* nor backport/<v>-pending, for every requested version v.
C6_RootCompletes ==
    ChainFinished =>
        \A v \in requested : StateLabels(prs[RootPR].labels, v) = {DoneLabel(v)}

\* A finished chain of three hops whose root still waits for a version.
C6_Witness ==
    /\ ChainFinished
    /\ Cardinality(requested) = 3
    /\ \E v \in requested : PendingLabel(v) \in prs[RootPR].labels

\* C7: in a chained request a hop hands the new tracking pull request a
\* strictly smaller set of backport/<v> labels than the merged one carried,
\* a merged pull request without such a label ends the chain without a new
\* pull request, and there are never more tracking pull requests than
\* requested versions.
C7_Step ==
    \A m \in DOMAIN prs :
        (last'.op \in {"chain", "push"} /\ last'.pr = m) =>
            /\ Len(prs') > Len(prs) =>
                  /\ Len(prs') = Len(prs) + 1
                  /\ BareVersions(prs'[Len(prs')].labels) \subseteq BareVersions(prs[m].labels)
                  /\ BareVersions(prs'[Len(prs')].labels) # BareVersions(prs[m].labels)
            /\ BareVersions(prs[m].labels) = {} => Len(prs') = Len(prs)

C7_Bound == IsChained => Cardinality(TrackingPRs) <= Cardinality(requested)

C9_Step ==
    /\ \A n \in DOMAIN prs :
          LET L == prs[n].labels
              V == BareVersions(L)
              parallel == Lbl("parallel_backport", NoVer) \in L
          IN (/\ InitialStep(n)
              /\ V # {}
              /\ AnyWithHead(prs, HeadBranch(n, Highest(V))) = {}) =>
                 \A v \in V \cap onBranch :
                     (IF parallel THEN AnyWithHead(prs, HeadBranch(n, v)) = {}
                      ELSE v = Highest(V)) =>
                        /\ StateLabels(prs'[n].labels, v) = {DoneLabel(v)}
                        /\ \A t \in DOMAIN prs' \ DOMAIN prs : prs'[t].head.ver # v
                        /\ [ver |-> v, target |-> n] \in last'.skipped
    /\ \A m \in TrackingPRs :
          LET V == BareVersions(prs[m].labels)
              original_pr == get_original_pr_from_backport(prs, prs[m])
          IN (/\ ChainStep(m)
              /\ V # {}
              /\ Highest(V) \in onBranch
              /\ original_pr # 0
              /\ PendingLabel(Highest(V)) \in prs[original_pr].labels) =>
                 /\ StateLabels(prs'[original_pr].labels, Highest(V)) = {DoneLabel(Highest(V))}
                 /\ Len(prs') = Len(prs)

C10_Step ==
    \A n \in DOMAIN prs :
        LET V == BareVersions(prs[n].labels)
        IN (/\ InitialStep(n)
            /\ V # {}
            /\ AnyWithHead(prs, HeadBranch(n, Highest(V))) # {}) =>
               /\ prs' = prs
               /\ issues' = issues
               /\ comments' = comments

C10_SafeRetry == [][C10_Step]_vars

\* An initial pass has found the tracking pull request of the highest
\* version closed and has created nothing.
C10_Witness ==
    /\ last.op = "initial"
    /\ last.outcome = "chain_in_progress"
    /\ \E t \in TrackingPRs :
         /\ prs[t].head = HeadBranch(last.pr, last.sorted[1])
         /\ prs[t].state = "closed"

SubTasks == {k \in DOMAIN issues : issues[k].subtask}

C12_TwoLevels ==
    /\ \A k \in SubTasks :
          issues[k].parent \in DOMAIN issues /\ ~issues[issues[k].parent].subtask
    /\ \A k \in SubTasks, v \in Versions :
          LET r == create_jira_sub_issue(issues, k, v, NoFault)
          IN r.issues # issues =>
                /\ Len(r.issues) = Len(issues) + 1
                /\ r.key = Len(r.issues)
                /\ r.issues[r.key].parent = issues[k].parent
                /\ r.issues[r.key].subtask

\* The sub-task of the lowest version could not be created in the initial
\* pass (a failure comment says so) and exists now: the second hop created
\* it from the key of the first version's sub-task.
C12_Witness ==
    /\ IsChained
    /\ requested = Versions
    /\ <<RootIssue, VM34>> \in comments
    /\ \E t \in TrackingPRs : prs[t].head = HeadBranch(RootPR, V254)
    /\ \E k \in SubTasks : issues[k].ver = VM34 /\ issues[k].parent = RootIssue

JiraFault(v) == [kind |-> "jira", ver |-> v, lkind |-> "none"]

InitialEnabled(n) == \E b \in PassBranches : get_promoted_label(b) \in prs[n].labels

\* W: the pass in which the sub-task calls for version v fail; W0: the same
\* pass without a failure; keys: the Fixes keys the pass reads.
C13_Handled(W, W0, keys, v) ==
    \A c0 \in W0.created :
        W0.prs[c0].head.ver = v =>
            \E c \in W.created :
                /\ W.prs[c].head = W0.prs[c0].head
                /\ W.prs[c].fixes = keys
                /\ Lbl(JIRA_FAILURE_LABEL, NoVer) \in W.prs[c].labels
                /\ \A i \in DOMAIN keys : <<keys[i], v>> \in W.comments

C13_InitialPass ==
    failed < budget =>
        \A n \in DOMAIN prs, v \in Versions :
            (InitialEnabled(n) /\ v \in InitialVersions(n)) =>
                C13_Handled(MainForPR(Start, n, repoName, onBranch, {}, JiraFault(v)),
                            MainForPR(Start, n, repoName, onBranch, {}, NoFault),
                            prs[n].fixes, v)

ChainSourceKeys(m) ==
    LET original_pr == get_original_pr_from_backport(prs, prs[m])
    IN IF original_pr # 0 THEN prs[original_pr].fixes ELSE prs[m].fixes

C13_ChainHop ==
    failed < budget =>
        \A m \in DOMAIN prs, v \in Versions :
            (prs[m].state = "merged" /\ v \in Attempted(m, ChainVersions(m))) =>
                C13_Handled(process_chain_backport(Start, m, repoName, onBranch, {},
                                                   JiraFault(v)),
                            process_chain_backport(Start, m, repoName, onBranch, {},
                                                   NoFault),
                            ChainSourceKeys(m), v)

\* C13: when the sub-task calls for a version fail in a pass that creates
\* the version's tracking pull request, initial pass or chain hop, the pull
\* request is created all the same, its Fixes lines keep the keys that were
\* given, it carries the failure label, and a comment on each of those
\* issues reports the failure.
C13_SubTaskFailure == C13_InitialPass /\ C13_ChainHop

\* A chain hop whose sub-task call failed has created a tracking pull
\* request: its Fixes line names the root issue, it has no failure label
\* and no comment was posted.
C13_Witness ==
    /\ failed = 1
    /\ comments = {}
    /\ \E t \in TrackingPRs :
          /\ prs[t].head.num \in TrackingPRs
          /\ prs[t].fixes = <<RootIssue>>
          /\ Lbl(JIRA_FAILURE_LABEL, NoVer) \notin prs[t].labels

GitFault(v) == [kind |-> "git", ver |-> v, lkind |-> "none"]

\* The pull requests that track version v.
TrackingFor(P, v) == {n \in DOMAIN P : P[n].head.ver = v}

\* backport() called for pull request n and version v, whose commit is not
\* on the target branch, with a failing git operation: None comes back and
\* the pull requests are as before.
C14_Backport ==
    \A n \in DOMAIN prs, v \in Versions \ onBranch, d \in BOOLEAN, jf \in BOOLEAN,
       o \in {0} \cup DOMAIN prs :
        LET r == backport(Start,
                          BackportArgs(n, v, get_branch_name(repoName, v),
                                       Body(prs[n].fixes, prs[n].markers), jf, o, {}),
                          onBranch, IF d THEN {v} ELSE {}, GitFault(v))
        IN r.ret = 0 /\ r.W.prs = prs /\ r.W.created = {}

\* A pass in which the git operations for version v fail creates no
\* tracking pull request for v.
C14_Passes ==
    \A n \in DOMAIN prs, v \in Versions :
        /\ (InitialEnabled(n) /\ v \in Attempted(n, InitialVersions(n))) =>
              LET W == MainForPR(Start, n, repoName, onBranch, {}, GitFault(v))
              IN TrackingFor(W.prs, v) = TrackingFor(prs, v)
        /\ (prs[n].state = "merged" /\ v \in Attempted(n, ChainVersions(n))) =>
              LET W == process_chain_backport(Start, n, repoName, onBranch, {},
                                              GitFault(v))
              IN TrackingFor(W.prs, v) = TrackingFor(prs, v)

\* C14: when a git operation of backport() fails (the clone, the
\* continuation of a conflicted cherry-pick, the push), backport() returns
\* None and no tracking pull request is created for the version.
C14_GitFailure == C14_Backport /\ C14_Passes

\* A pass has failed after the sub-tasks were opened and before a tracking
\* pull request existed: the original pull request is alone and keeps its
\* backport labels.
C14_Witness ==
    /\ failed = 1
    /\ Len(prs) = 1
    /\ SubTasks # {}
    /\ comments = {}
    /\ requested \cap onBranch = {}
    /\ \A v \in requested : BackportLabel(v) \in prs[RootPR].labels

\* Every pull request the pass W created is a draft exactly when its version
\* is in conflicted, and carries the conflicts label exactly then.
C15_Drafts(W, conflicted) ==
    \A c \in W.created :
        /\ W.prs[c].draft = (W.prs[c].head.ver \in conflicted)
        /\ (Lbl("conflicts", NoVer) \in W.prs[c].labels) = (W.prs[c].head.ver \in conflicted)

C16_AssignedToRootAuthor ==
    \A t \in TrackingPRs :
        /\ prs[t].assignee = prs[RootOf(t)].author
        /\ prs[t].assignee # BotUser

\* The tracking pull request of the third version was cut from the second
\* tracking pull request and is assigned to the bot.
C16_Witness ==
    \E t \in TrackingPRs :
        /\ prs[t].head.num \in TrackingPRs
        /\ prs[prs[t].head.num].head.num \in TrackingPRs
        /\ RootOf(t) = RootPR
        /\ prs[t].assignee = BotUser

\* The pull request reached from n after k back-references (0 when one of
\* them cannot be followed), computed without the loop.
RECURSIVE HopAt(_, _)
HopAt(n, k) ==
    IF k = 0 \/ n = 0 THEN n
    ELSE HopAt(get_original_pr_from_backport(prs, prs[n]), k - 1)

\* Every pull request on the first k hops from n is a tracking pull request
\* whose parent can be fetched.
AllLinked(n, k) ==
    \A j \in 0..(k - 1) :
        /\ HopAt(n, j) # 0
        /\ is_backport_pr(prs[HopAt(n, j)])
        /\ HopAt(n, j + 1) # 0

\* C17: whatever the back-references are, get_root_original_pr returns after
\* following at most max_depth of them, with the pull request that many
\* hops away from the start; when every pull request on the way is a
\* tracking pull request with a parent that can be fetched, it returns the
\* pull request at hop max_depth.
C17_BoundedTracing ==
    call.fn = "get_root_original_pr" =>
        /\ call.depth <= call.max_depth
        /\ call.pr = HopAt(call.start, call.depth)
        /\ call.pr \in DOMAIN prs
        /\ AllLinked(call.start, call.max_depth) =>
              /\ call.depth = call.max_depth
              /\ call.pr = HopAt(call.start, call.max_depth)
        /\ call.depth < call.max_depth =>
              \/ ~is_backport_pr(prs[call.pr])
              \/ get_original_pr_from_backport(prs, prs[call.pr]) = 0

\* Traced from pull request 1 of the circle of CycleLength with the default
\* max_depth: the pull request max_depth hops on is returned.
C17_Witness ==
    /\ call.fn = "get_root_original_pr"
    /\ Len(prs) = CycleLength
    /\ call.start = 1
    /\ call.max_depth = max_depth_default
    /\ call.depth = max_depth_default
    /\ call.pr = (max_depth_default % CycleLength) + 1

IsParallel(n) == Lbl("parallel_backport", NoVer) \in prs[n].labels

\* C18: an initial pass for a pull request that carries parallel_backport
\* attempts every requested version in that pass: each version gets a new
\* tracking pull request from its own head branch to its own version
\* branch, unless it has one already or its branch holds the change; no
\* label of the original pull request becomes pending, and no pull request
\* the pass creates carries a backport/<v> label.
C18_Step ==
    \A n \in DOMAIN prs :
        (InitialStep(n) /\ IsParallel(n)) =>
            /\ \A v \in Range(BackportVersions(prs[n].labels)) :
                  \/ \E c \in last'.created :
                        /\ prs'[c].head = HeadBranch(n, v)
                        /\ prs'[c].base = get_branch_name(repoName, v)
                  \/ find_existing_backport_pr(prs, n, v) # 0
                  \/ v \in onBranch
            /\ \A c \in last'.created :
                  /\ prs'[c].head.num = n
                  /\ prs'[c].base = get_branch_name(repoName, prs'[c].head.ver)
                  /\ \A l \in prs'[c].labels : l.kind # "backport"
            /\ \A v \in Versions :
                  PendingLabel(v) \in prs'[n].labels => PendingLabel(v) \in prs[n].labels

C18_ParallelMode == [][C18_Step]_vars

\* A parallel pass has created the tracking pull requests of MaxParallel
\* versions at once, and the original pull request has no pending label.
C18_Witness ==
    /\ last.op = "initial"
    /\ last.outcome = "parallel"
    /\ Cardinality(last.created) = MaxParallel
    /\ \A v \in Versions : PendingLabel(v) \notin prs[last.pr].labels

PullFault(v) == [kind |-> "pr", ver |-> v, lkind |-> "none"]

Labelled(n) == Range(BackportVersions(prs[n].labels))

\* Version w of pull request n still needs its tracking pull request.
Needs(n, w) ==
    /\ w \in Labelled(n)
    /\ find_existing_backport_pr(prs, n, w) = 0
    /\ w \notin onBranch

CreatedFor(W, n, w) == \E c \in W.created : W.prs[c].head = HeadBranch(n, w)

\* A parallel pass in which git or the pull-request creation fails for
\* version u creates the tracking pull request of every other version that
\* needs one.
C19_FailingSibling ==
    failed < budget =>
        \A n \in DOMAIN prs, w \in Versions, u \in Versions :
            (InitialEnabled(n) /\ IsParallel(n) /\ u # w /\ Needs(n, w) /\ Needs(n, u)) =>
                \A flt \in {GitFault(u), PullFault(u)} :
                    CreatedFor(MainForPR(Start, n, repoName, onBranch, {}, flt), n, w)

\* A parallel pass that finds the tracking pull request of version u in
\* place creates the one of every other version that needs one.
C19_ExistingSibling ==
    \A n \in DOMAIN prs, w \in Versions, u \in Versions :
        (/\ InitialEnabled(n) /\ IsParallel(n) /\ u # w /\ Needs(n, w)
         /\ u \in Labelled(n) /\ find_existing_backport_pr(prs, n, u) # 0) =>
            CreatedFor(MainForPR(Start, n, repoName, onBranch, {}, NoFault), n, w)

\* C19: in parallel mode a git failure, an existing tracking pull request or
\* a failing pull-request creation for one requested version does not keep
\* the pass from creating the tracking pull requests of the other requested
\* versions.
C19_SiblingIsolation == C19_FailingSibling /\ C19_ExistingSibling

\* After a pass that failed for the lower version: the highest requested
\* version has its tracking pull request, the lower one needs one.
C19_Witness ==
    /\ failed = 1
    /\ IsParallel(RootPR)
    /\ \E u, w \in Labelled(RootPR) :
          /\ u = Highest(Labelled(RootPR))
          /\ find_existing_backport_pr(prs, RootPR, u) # 0
          /\ Needs(RootPR, w)

Count(s, x) == Cardinality({i \in DOMAIN s : s[i] = x})

\* The elements of s whose sort key is k, in their order in s.
WithKey(s, k) ==
    LET HasKey(x) == parse_version(x) = k
    IN SelectSeq(s, HasKey)

\* C20: sort_versions_descending returns a permutation of its input in
\* which every standard version comes before every manager version, two
\* versions of one kind are in descending (major, minor) order, and the
\* versions with one key are in the order they had in the input.
C20_VersionOrdering ==
    call.fn = "sort_versions_descending" =>
        LET s == call.versions
            t == call.ret
        IN /\ Len(t) = Len(s)
           /\ \A x \in SortVersions : Count(t, x) = Count(s, x)
           /\ \A i, j \in DOMAIN t :
                 i < j =>
                    /\ ~(t[i].mgr /\ ~t[j].mgr)
                    /\ t[i].mgr = t[j].mgr =>
                          \/ t[i].major > t[j].major
                          \/ t[i].major = t[j].major /\ t[i].minor >= t[j].minor
           /\ \A x \in SortVersions :
                 WithKey(t, parse_version(x)) = WithKey(s, parse_version(x))

\* A manager version with the largest numbers came first and went last;
\* "2025.04" and "2025.4" kept their order.
C20_Witness ==
    /\ call.fn = "sort_versions_descending"
    /\ call.versions = <<Written(TRUE, 2026, 1, 0), Written(FALSE, 2025, 4, 1),
                         Written(FALSE, 2025, 4, 0)>>
    /\ call.ret = <<Written(FALSE, 2025, 4, 1), Written(FALSE, 2025, 4, 0),
                    Written(TRUE, 2026, 1, 0)>>

\* C21: get_branch_name maps a manager version to the branch named like the
\* version, for every repository; a standard version to branch-<v> for
\* scylladb/scylladb and to next-<v> for every other repository.
C21_BranchMapping ==
    (call.fn = "get_branch_name" /\ call.done) =>
        LET repo_name == call.args[1]
            v == call.args[2]
        IN /\ v.mgr => call.ret = [prefix |-> "", ver |-> v]
           /\ (~v.mgr /\ repo_name = "scylladb/scylladb") =>
                 call.ret = [prefix |-> "branch-", ver |-> v]
           /\ (~v.mgr /\ repo_name # "scylladb/scylladb") =>
                 call.ret = [prefix |-> "next-", ver |-> v]

\* A manager version asked for a repository that is not the primary one.
C21_Witness ==
    /\ call.fn = "get_branch_name"
    /\ call.done
    /\ call.args[1] = "scylladb/scylla-manager"
    /\ call.args[2].mgr
    /\ call.ret.prefix = ""

\* C22: the head branch of every tracking pull request, created by the
\* initial pass or by a chain hop, is backport/<N>/to-<version> with N the
\* number of the original pull request, so that the lookup for (original
\* pull request, version) finds it.
C22_HeadNamesOriginal ==
    \A t \in TrackingPRs :
        /\ prs[t].head.num = RootPR
        /\ find_existing_backport_pr(prs, RootPR, prs[t].head.ver) # 0

\* A chain hop has created a tracking pull request whose head branch carries
\* the number of the tracking pull request that was merged; the lookup for
\* the original pull request and that version finds nothing.
C22_Witness ==
    \E t \in TrackingPRs :
        /\ prs[t].head.num \in TrackingPRs
        /\ RootOf(t) = RootPR
        /\ find_existing_backport_pr(prs, RootPR, prs[t].head.ver) = 0

\* C23: what extract_original_title returns starts with no [Backport <v>]
\* prefix, and the function returns it unchanged when applied to it again.
C23_TitleStripped ==
    (call.fn = "extract_original_title" /\ call.done) =>
        /\ call.ret = <<>> \/ ~call.ret[1].bp
        /\ extract_original_title(call.ret) = call.ret

\* The tracking pull requests of a chain are titled [Backport <version>]
\* and the title of the original pull request.
C23_ChainTitles ==
    \A t \in TrackingPRs :
        prs[t].title = <<BackportToken(prs[t].head.ver), SpaceToken>> \o prs[RootOf(t)].title

\* A title that starts with white space came back with its prefix in front.
C23_Witness ==
    /\ call.fn = "extract_original_title"
    /\ call.done
    /\ call.args = <<SpaceToken, BackportToken(V254), TextToken>>
    /\ call.ret = <<BackportToken(V254), TextToken>>

\* The body holds the marker k with a #<number>.
NumberedMarker(pr, k) ==
    \E i \in DOMAIN pr.markers : pr.markers[i].kind = k /\ pr.markers[i].num # 0

C24_EachSuffices ==
    (call.fn = "is_backport_pr" /\ call.done) =>
        ((\/ call.args.title # <<>> /\ call.args.title[1].bp
          \/ NumberedMarker(call.args, "backport_of")
          \/ NumberedMarker(call.args, "parent")) => call.ret)

\* A tracking pull request by its marks: a title that starts with
\* [Backport <version>] or a body with a numbered back-reference.
Recognisable(pr) ==
    \/ pr.title # <<>> /\ pr.title[1].bp
    \/ NumberedMarker(pr, "backport_of")
    \/ NumberedMarker(pr, "parent")

\* C25: chain continuation for a merged pull request that is no tracking
\* pull request changes no label of any pull request, creates no sub-task
\* and creates no tracking pull request.
C25_Step ==
    \A m \in DOMAIN prs :
        (ChainStep(m) /\ ~Recognisable(prs[m])) =>
            /\ prs' = prs
            /\ issues' = issues
            /\ comments' = comments

C25_NonTrackingNoOp == [][C25_Step]_vars

\* Chain continuation ran for the original pull request, whose body says
\* "Parent PR:" without a number, and created a tracking pull request.
C25_Witness ==
    /\ last.op = "chain"
    /\ last.pr = RootPR
    /\ ~Recognisable(prs[RootPR])
    /\ last.created # {}

\* C26: the versions a pass works on are the versions of the labels
\* backport/<version>, pending and done labels left out; an initial pass for
\* a pull request without such a label changes nothing, and chain
\* continuation for a pull request without such a label creates no tracking
\* pull request and no sub-task.
C26_Step ==
    \A n \in DOMAIN prs :
        /\ InitialStep(n) =>
              /\ Range(last'.sorted) = BareVersions(prs[n].labels)
              /\ BareVersions(prs[n].labels) = {} =>
                    /\ prs' = prs
                    /\ issues' = issues
                    /\ comments' = comments
        /\ (ChainStep(n) /\ is_backport_pr(prs[n])) =>
              /\ Range(last'.sorted) = BareVersions(prs[n].labels)
              /\ BareVersions(prs[n].labels) = {} =>
                    /\ last'.created = {}
                    /\ Len(prs') = Len(prs)
                    /\ issues' = issues

C26_OnlyBareLabels == [][C26_Step]_vars

\* An initial pass ran for a pull request that has pending or done labels
\* and no backport/<version> label, and ended at once.
C26_Witness ==
    /\ last.op = "initial"
    /\ last.outcome = "no_backport_label"
    /\ \E v \in Versions : PendingLabel(v) \in prs[last.pr].labels
    /\ \E v \in Versions : DoneLabel(v) \in prs[last.pr].labels

\* After the pass W version v is still on record: some pull request has
\* backport/<v>, or the pass created a tracking pull request, or it left a
\* failure label or a comment.
C27_Recorded(W, v) ==
    \/ \E n \in DOMAIN W.prs : BackportLabel(v) \in W.prs[n].labels
    \/ W.created # {}
    \/ W.comments # comments
    \/ \E n \in DOMAIN prs :
          /\ Lbl(JIRA_FAILURE_LABEL, NoVer) \in W.prs[n].labels
          /\ Lbl(JIRA_FAILURE_LABEL, NoVer) \notin prs[n].labels

\* C27: chain continuation in which git or the pull-request creation fails
\* for the next version never ends with backport/<next> on no pull request,
\* no tracking pull request created and no failure label or comment added.
C27_ChainStateKept ==
    failed < budget =>
        \A m \in DOMAIN prs, v \in Versions \ onBranch :
            (prs[m].state = "merged" /\ v \in Attempted(m, ChainVersions(m))) =>
                \A flt \in {GitFault(v), PullFault(v)} :
                    C27_Recorded(process_chain_backport(Start, m, repoName, onBranch, {},
                                                        flt), v)

\* After a hop that failed: the next version is pending on the original
\* pull request, no pull request has its backport/<v> label, nothing tracks
\* it and nothing reports the failure.
C27_Witness ==
    /\ failed = 1
    /\ comments = {}
    /\ \E v \in requested \ onBranch :
          /\ PendingLabel(v) \in prs[RootPR].labels
          /\ TrackingFor(prs, v) = {}
          /\ \A n \in DOMAIN prs :
                /\ BackportLabel(v) \notin prs[n].labels
                /\ Lbl(JIRA_FAILURE_LABEL, NoVer) \notin prs[n].labels

\* ---- C28 ----

MatchingTags(c) == {c.args.tags[i] : i \in {j \in DOMAIN c.args.tags : c.args.tags[j].ver = c.args.version}}

HighestPatch(tags) == CHOOSE p \in {t.patch : t \in tags} : \A t \in tags : t.patch <= p

\* C28: for a release version and any list of tags, the milestone proposed is
\* <version>.<p+1> for the highest patch number p among the matching release
\* and prerelease tags, <version>.0 when all matching tags are prerelease
\* tags, and none when no tag matches.
C28_MilestoneResolved ==
    (call.fn = "resolve_backport_milestone_title" /\ call.done
        /\ ~is_manager_version(call.args.version)) =>
        IF MatchingTags(call) = {} THEN call.ret = Unresolved
        ELSE IF \A t \in MatchingTags(call) : t.rc
        THEN call.ret = Milestone(call.args.version, 0)
        ELSE call.ret = Milestone(call.args.version, HighestPatch(MatchingTags(call)) + 1)

\* A release 0 followed by a prerelease of patch 2: the answer is <version>.1.
C28_Witness ==
    /\ call.fn = "resolve_backport_milestone_title"
    /\ call.done
    /\ call.args.version = V254
    /\ call.args.tags = <<ReleaseTag(V254, 0), RcTag(V254, 2)>>
    /\ call.ret = Milestone(V254, 1)

\* The cases of C28 on the tag histories the releases have: prerelease tags
\* are cut for patch 0 only.
C28_UsualHistories ==
    (call.fn = "resolve_backport_milestone_title" /\ call.done
        /\ ~is_manager_version(call.args.version)
        /\ \A t \in MatchingTags(call) : t.rc => t.patch = 0) =>
        IF MatchingTags(call) = {} THEN call.ret = Unresolved
        ELSE IF \A t \in MatchingTags(call) : t.rc
        THEN call.ret = Milestone(call.args.version, 0)
        ELSE call.ret = Milestone(call.args.version, HighestPatch(MatchingTags(call)) + 1)

\* ---- C29 ----

C29_Equal(c) ==
    \E p \in DOMAIN c.args.branch :
        /\ p <= RecentWindow
        /\ \/ c.args.branch[p].sha = c.args.commit.sha
           \/ c.args.branch[p].title = c.args.commit.title

\* C29: is_commit_in_branch reports a commit as present only if one of the
\* 100 most recent commits of the branch has its SHA or a first message line
\* equal to its first message line.
C29_PresentOnlyIfEqual ==
    (call.fn = "is_commit_in_branch" /\ call.done /\ call.ret) => C29_Equal(call)

\* Reported present for a branch commit whose first line only contains the
\* commit's first line.
C29_Witness ==
    /\ call.fn = "is_commit_in_branch"
    /\ call.done
    /\ call.ret
    /\ call.args.commit = CommitOf(1, <<"fix">>)
    /\ call.args.branch[1] = CommitOf(2, <<"fix", "crash">>)
    /\ call.args.branch[RecentWindow] = UnrelatedCommit
    /\ call.args.branch[RecentWindow + 1] = UnrelatedCommit

\* The parts of C29 that hold: a commit with the SHA or the first line among
\* the 100 most recent ones is reported present, and no commit further down
\* is looked at.
C29_WindowAndEquality ==
    (call.fn = "is_commit_in_branch" /\ call.done) =>
        /\ C29_Equal(call) => call.ret
        /\ call.ret =>
              \E p \in DOMAIN call.args.branch :
                  p <= RecentWindow /\ Matches(call.args.commit, call.args.branch[p])

\* ---- C30 ----

\* X.Y or manager-X.Y with numeric X and Y.
C30_Shape(v) ==
    \E k \in DOMAIN v :
        /\ v[k] = "."
        /\ k < Len(v)
        /\ k > (IF v[1] = "manager-" THEN 2 ELSE 1)
        /\ \A i \in DOMAIN v \ {k} : v[i] = "9" \/ (i = 1 /\ v[i] = "manager-")

C30_WellFormed(name) ==
    /\ name # <<>>
    /\ name[1] = "backport/"
    /\ C30_Shape(Tail(name))

PendingVersions(L) == {l.ver : l \in {k \in L : k.kind = "backport-pending"}}

\* What C31 says of the merged tracking pull request m after the hop.
C31_Merged(m) ==
    /\ BareVersions(prs'[m].labels) = {}
    /\ PendingVersions(prs'[m].labels) =
          BareVersions(prs[m].labels) \ {Highest(BareVersions(prs[m].labels))}

C31_Handled(m) ==
    /\ ChainStep(m)
    /\ is_backport_pr(prs[m])
    /\ BareVersions(prs[m].labels) # {}

\* C31 as stated: the labels of the new tracking pull request are exactly
\* backport/<v> for the remaining versions but the highest.
C31_ExactStep ==
    \A m \in DOMAIN prs :
        C31_Handled(m) =>
            /\ \A c \in last'.created :
                  prs'[c].labels =
                      {BackportLabel(v) :
                          v \in BareVersions(prs[m].labels)
                                    \ {Highest(BareVersions(prs[m].labels))}}
            /\ C31_Merged(m)

C31_Step ==
    \A m \in DOMAIN prs :
        C31_Handled(m) =>
            /\ \A c \in last'.created :
                  /\ BareVersions(prs'[c].labels) =
                        BareVersions(prs[m].labels)
                            \ {Highest(BareVersions(prs[m].labels))}
                  /\ \A l \in prs'[c].labels : l.kind \in {"backport", "conflicts"}
            /\ C31_Merged(m)

C32_Step ==
    \A c \in last'.created :
        get_original_pr_from_backport(prs', prs'[c]) = last'.pr

\* C32: every tracking pull request created from a source pull request, in
\* an initial pass or at a chain hop, resolves back to that source pull
\* request through its body.
C32_BackReference == [][C32_Step]_vars

\* A second hop has created a tracking pull request whose body holds two
\* "Parent PR:" lines and which resolves to the first of them.
C32_Witness ==
    /\ last.op \in {"chain", "push"}
    /\ \E c \in last.created :
          /\ Len(prs[c].markers) > 1
          /\ get_original_pr_from_backport(prs, prs[c]) # last.pr

\* The hops whose source body holds no "Parent PR:" line yet, and the
\* initial pass, do resolve to their source.
C32_FirstLine ==
    [][\A c \in last'.created :
          Len(prs'[c].markers) = 1 =>
              get_original_pr_from_backport(prs', prs'[c]) = last'.pr]_vars

\* ---- C33 ----

\* C33: over any sequence of initial, chain-continuation and branch-push
\* passes for the original pull request in chained mode, passes that are run
\* again and passes in which a label call failed included, at most one
\* tracking pull request exists for each version.
C33_OnePerVersion ==
    ~IsParallel(RootPR) =>
        \A v \in Versions : Cardinality(TrackingFor(prs, v)) <= 1

\* Two tracking pull requests for one version, the second one created by an
\* initial pass that ran again after a label call had failed.
C33_Witness ==
    /\ ~IsParallel(RootPR)
    /\ failed = 1
    /\ \E v \in Versions : Cardinality(TrackingFor(prs, v)) = 2

\* ---- C34 ----

\* C34: when chain continuation for one merged tracking pull request runs
\* twice at once, in every interleaving of the label reads, label writes,
\* pushes and creation calls of the two runs at most one tracking pull
\* request exists for the next version (and for any version).
C34_OneNextHop ==
    \A v \in Versions : Cardinality(TrackingFor(prs, v)) <= 1

\* Both runs have asked the host to create the pull request of the next
\* version and hold the same one.
C34_Witness ==
    /\ call.fn = "process_chain_backport"
    /\ \A i \in DOMAIN call.runs : call.runs[i].pc = "finished"
    /\ call.runs[1].ret # 0
    /\ call.runs[1].ret = call.runs[2].ret

\* ---- C35 ----

\* C35: when two runs execute create_jira_sub_issue at once, in every
\* interleaving of their searches and creations there is at most one
\* backport sub-task per (parent issue, version).
C35_OneSubTask ==
    \A k \in DOMAIN issues, v \in Versions :
        Cardinality({j \in DOMAIN issues :
                        issues[j].subtask /\ issues[j].parent = k /\ issues[j].ver = v}) <= 1

\* Two runs for one parent issue and one version have both searched before
\* either created, and both have created a sub-task.
C35_Witness ==
    /\ call.fn = "create_jira_sub_issue"
    /\ \A i \in DOMAIN call.runs : call.runs[i].pc = "finished"
    /\ call.runs[1].actual_parent_key = call.runs[2].actual_parent_key
    /\ call.runs[1].version = call.runs[2].version
    /\ call.runs[1].ret # call.runs[2].ret
    /\ issues[call.runs[1].ret] = issues[call.runs[2].ret]

\* ---- C36 ----

\* The initial pass of a chained request for two versions or more has
\* skipped the highest one, whose commit is on its branch already.
C36_Skipped ==
    /\ last.op = "initial"
    /\ last.pr = RootPR
    /\ ~IsParallel(RootPR)
    /\ Cardinality(requested) >= 2
    /\ \E s \in last.skipped : s.ver = Highest(requested)

C36_Served ==
    \A v \in requested \ {Highest(requested)} :
        \/ TrackingFor(prs, v) # {}
        \/ DoneLabel(v) \in prs[RootPR].labels

\* C36: after the highest version of a chained request was skipped, every
\* lower requested version gets a tracking pull request or a done label in
\* the end.
C36_NoStall == C36_Skipped ~> C36_Served

\* The pass has ended with the lower versions as bare labels on the original
\* pull request and no tracking pull request.
C36_Witness ==
    /\ C36_Skipped
    /\ Len(prs) = 1
    /\ \A v \in requested \ {Highest(requested)} : BackportLabel(v) \in prs[RootPR].labels

\* ---- C37 ----

C37_Kept(W, n, v) ==
    /\ TrackingFor(W.prs, v) = TrackingFor(prs, v)
    /\ W.prs[n].labels = prs[n].labels

\* C37: in chained mode, when the attempt of an initial pass for the highest
\* version yields no tracking pull request because a git operation or the
\* creation of the pull request fails, every label of the original pull
\* request is as before the pass.
C37_LabelsUntouched ==
    failed < budget =>
        \A n \in DOMAIN prs, v \in Versions \ onBranch :
            (/\ InitialEnabled(n)
             /\ ~IsParallel(n)
             /\ v \in Attempted(n, InitialVersions(n))
             /\ find_existing_backport_pr(prs, n, v) = 0) =>
                \A flt \in {GitFault(v), PullFault(v)} :
                    C37_Kept(MainForPR(Start, n, repoName, onBranch, {}, flt), n, v)

\* An initial pass for two versions or more has failed: the original pull
\* request is alone and carries every requested version as a bare label.
C37_Witness ==
    /\ failed = 1
    /\ Len(prs) = 1
    /\ ~IsParallel(RootPR)
    /\ Cardinality(requested) >= 2
    /\ requested \cap onBranch = {}
    /\ BareVersions(prs[RootPR].labels) = requested

\* ---- C38 ----

Reordered(tags, perm) == [i \in DOMAIN tags |-> tags[perm[i]]]

\* C38: for a version and a set of tags, find_latest_patch_for_branch
\* returns the same patch number in whatever order the tags are listed.
C38_OrderIndependent ==
    (call.fn = "find_latest_patch_for_branch" /\ call.done) =>
        \A perm \in Permutations(DOMAIN call.args.tags) :
            Returned(find_latest_patch_for_branch(Reordered(call.args.tags, perm),
                                                  call.args.version)) = call.ret

\* Release 0 listed before prerelease 2 gives patch 0; listed after it, it
\* gives patch 1.
C38_Witness ==
    /\ call.fn = "find_latest_patch_for_branch"
    /\ call.done
    /\ call.args.tags = <<ReleaseTag(V254, 0), RcTag(V254, 2)>>
    /\ call.ret = [found |-> TRUE, patch |-> 0]
    /\ Returned(find_latest_patch_for_branch(<<RcTag(V254, 2), ReleaseTag(V254, 0)>>, V254))
          = [found |-> TRUE, patch |-> 1]

\* ---- C39 ----

\* The branches named next and next-<version>, and the stable ones.
C39_Gating(b) == b.prefix \in {"next", "next-"}
C39_Stable(b) == b = MasterBranch \/ (b.prefix \in {"branch-", ""} /\ b.ver # NoVer)

C39_Step ==
    last'.op = "push" =>
        /\ C39_Gating(last'.branch) =>
              /\ prs' = prs
              /\ issues' = issues
              /\ comments' = comments
              /\ last'.created = {}
        /\ (prs' # prs \/ last'.created # {} \/ last'.outcome \in {"next_hop", "chain_complete"})
              => C39_Stable(last'.branch)

\* C39: a push to next or to a next-<version> branch changes no label of any
\* pull request, creates no tracking pull request and starts no chain hop;
\* a push pass marks done and continues a chain only for a stable branch.
C39_GatingPushIgnored == [][C39_Step]_vars

\* A push to the gating branch of a merged tracking pull request that still
\* carries further backport labels has been ignored.
C39_Witness ==
    /\ last.op = "push"
    /\ last.outcome = "gating"
    /\ last.branch.prefix = "next-"
    /\ last.pr # RootPR
    /\ is_backport_pr(prs[last.pr])
    /\ prs[last.pr].state = "merged"
    /\ BareVersions(prs[last.pr].labels) # {}

====
